---- MODULE Spec2Model ----
(***************************************************************************)
(* Model of the panel index / reshape / group aggregation core of          *)
(* pandas/core/panel.py.  Arrays are TLA+ sequences (1-based) whose        *)
(* CONTENTS are the 0-based positions the code stores; At(a, i) reads the  *)
(* element the code writes a[i].                                           *)
(***************************************************************************)
EXTENDS Integers, Sequences, FiniteSets, TLC

VARIABLES ix, ret, lp, wp, base, trace, out, agg,
          rx, off, req, cache, calls

\* the variables of the panel specifications and of the reindex, date offset
\* and date range specifications
panelVars == <<ix, ret, lp, wp, base, trace, out, agg>>
dateVars == <<rx, off, req, cache, calls>>

vars == <<panelVars, dateVars>>

(***************************************************************************)
(* Bounds of the model                                                     *)
(***************************************************************************)
MaxRows == 2         \* most stacked rows of a LongPanelIndex
MaxMissing == 2      \* most NaN entries of a panel the model starts from
MaxOps == 3          \* longest chain of reshape calls made from one panel
MaxAggRows == 3      \* most rows handed to group_agg
MaxGroups == 2       \* most entries of a bounds array handed to group_agg
MaxNew == 3          \* most labels of an index reindexed onto
MaxDay == 17         \* last day of the dates handed to offsets and ranges
MaxPeriods == 3      \* most periods asked of a date range

\* the labels and item names panels are built from
MajorLabels == <<1, 3>>
MinorLabels == <<1, 2>>
ItemNames == <<"ItemA", "ItemB">>

(***************************************************************************)
(* Python / NumPy values                                                   *)
(***************************************************************************)
None == [some |-> FALSE]
Some(v) == [some |-> TRUE, val |-> v]

\* an object no call has been made on
Idle == [op |-> "none"]

\* the part of the state a specification does not use
PanelIdle ==
    /\ ix = None /\ ret = Idle /\ lp = None /\ wp = None
    /\ base = None /\ trace = <<>> /\ out = Idle /\ agg = Idle

DateIdle ==
    /\ rx = Idle /\ off = Idle /\ req = Idle
    /\ cache = <<>> /\ calls = <<>>

NaN == -1
isfinite(v) == v # NaN

Min(a, b) == IF a < b THEN a ELSE b
Max(a, b) == IF a > b THEN a ELSE b

At(a, i) == a[i + 1]

\* a[l:r] for 0 <= l, 0 <= r: clipped to the array, empty when l >= r
PySlice(a, l, r) == SubSeq(a, l + 1, Min(r, Len(a)))

RECURSIVE SumSeq(_)
SumSeq(s) == IF s = <<>> THEN 0 ELSE Head(s) + SumSeq(Tail(s))

\* ndarray.searchsorted(key, side): binary search, also on unsorted arrays
RECURSIVE BinSearch(_, _, _, _, _)
BinSearch(a, key, lo, hi, right) ==
    IF lo >= hi THEN lo
    ELSE LET mid == lo + ((hi - lo) \div 2)
             goRight == IF right THEN At(a, mid) <= key ELSE At(a, mid) < key
         IN IF goRight THEN BinSearch(a, key, mid + 1, hi, right)
                       ELSE BinSearch(a, key, lo, mid, right)

searchsorted(a, key, side) == BinSearch(a, key, 0, Len(a), side = "right")

\* Index.indexMap.get(label): position of the label, None when absent
indexMap_get(axis, label) ==
    IF \E p \in 1..Len(axis) : axis[p] = label
    THEN Some((CHOOSE p \in 1..Len(axis) : axis[p] = label) - 1)
    ELSE None

(***************************************************************************)
(* LongPanelIndex                                                          *)
(***************************************************************************)
\* LongPanelIndex.__init__: the memo fields _mask and __bounds start unset
\* unless a mask is handed in
LongPanelIndex(major_axis, minor_axis, major_labels, minor_labels, mask) ==
    [major_axis |-> major_axis, minor_axis |-> minor_axis,
     major_labels |-> major_labels, minor_labels |-> minor_labels,
     mask |-> mask, bounds |-> None]

dims(index) == <<Len(index.major_axis), Len(index.minor_axis)>>

WidenThreshold == 65536    \* (offset + 1) ** 2 > 2**32  <=>  offset + 1 > 2**16

keysNoOffset(index) ==
    [i \in 1..Len(index.major_labels) |->
        index.major_labels[i] + index.minor_labels[i]]

\* the pair encoding of consistent; both branches compute the same sum, the
\* first in int64 and the second in the dtype of the label arrays
keysOf(index) ==
    LET offset == Max(Len(index.major_axis), Len(index.minor_axis))
    IN IF offset + 1 > WidenThreshold
       THEN [i \in 1..Len(index.major_labels) |->
                index.major_labels[i] * offset + index.minor_labels[i]]
       ELSE [i \in 1..Len(index.major_labels) |->
                index.major_labels[i] * offset + index.minor_labels[i]]

consistent(index) ==
    LET keys == keysOf(index)
        unique_keys == {keys[i] : i \in 1..Len(keys)}
    IN IF Cardinality(unique_keys) < Len(keys) THEN FALSE ELSE TRUE

makeMaskMajorStride(index) ==
    LET N == dims(index)[1]
        K == dims(index)[2]
        selector == [i \in 1..Len(index.minor_labels) |->
                        index.major_labels[i] + N * index.minor_labels[i]]
    IN [c \in 1..(N * K) |-> \E i \in 1..Len(selector) : selector[i] = c - 1]

_makeMask(index) ==
    LET N == dims(index)[1]
        K == dims(index)[2]
        selector == [i \in 1..Len(index.minor_labels) |->
                        index.minor_labels[i] + K * index.major_labels[i]]
    IN [c \in 1..(N * K) |-> \E i \in 1..Len(selector) : selector[i] = c - 1]

\* the mask property: (index after the access, mask returned)
maskOf(index) ==
    IF index.mask.some THEN index
    ELSE [index EXCEPT !.mask = Some(_makeMask(index))]

boundsRight(index) ==
    IF index.bounds.some THEN index
    ELSE [index EXCEPT !.bounds =
            Some([k \in 1..Len(index.major_axis) |->
                    searchsorted(index.major_labels, k - 1, "right")])]

\* the _bounds property: index after the access; the array is .bounds.val
boundsOf(index) ==
    IF index.bounds.some THEN index
    ELSE [index EXCEPT !.bounds =
            Some([k \in 1..Len(index.major_axis) |->
                    searchsorted(index.major_labels, k - 1, "left")])]

Raised(kind) == [status |-> kind]
Returned(v) == [status |-> "ok", val |-> v]

_get_axis_bounds(index, begin, end) ==
    LET ib == IF begin.some THEN indexMap_get(index.major_axis, begin.val) ELSE None
        i == IF begin.some
             THEN IF ib.some THEN ib.val
                  ELSE searchsorted(index.major_axis, begin.val, "right")
             ELSE 0
        jb == IF end.some THEN indexMap_get(index.major_axis, end.val) ELSE None
        j == IF end.some
             THEN IF jb.some THEN jb.val + 1
                  ELSE searchsorted(index.major_axis, end.val, "left")
             ELSE Len(index.major_axis)
    IN IF i > j THEN Raised("Must have begin <= end!")
       ELSE Returned(<<i, j>>)

\* index is the index after self._bounds has been read
_get_label_bounds(index, i, j) ==
    LET b == index.bounds.val
    IN IF i >= Len(b) THEN Raised("IndexError")
       ELSE LET left == At(b, i)
                right == IF j >= Len(index.major_axis)
                         THEN Len(index.major_labels)
                         ELSE At(b, j)
            IN Returned(<<left, right>>)

\* get_major_bounds: [index |-> self afterwards, res |-> outcome]
get_major_bounds(index, begin, end) ==
    LET ab == _get_axis_bounds(index, begin, end)
    IN IF ab.status # "ok" THEN [index |-> index, res |-> ab]
       ELSE LET after == boundsOf(index)
            IN [index |-> after,
                res |-> _get_label_bounds(after, ab.val[1], ab.val[2])]

\* truncate: [index |-> self afterwards, res |-> outcome]
truncate(index, before, after) ==
    LET ab == _get_axis_bounds(index, before, after)
    IN IF ab.status # "ok" THEN [index |-> index, res |-> ab]
       ELSE LET self == boundsOf(index)
                i == ab.val[1]
                j == ab.val[2]
                lb == _get_label_bounds(self, i, j)
            IN IF lb.status # "ok" THEN [index |-> self, res |-> lb]
               ELSE LET left == lb.val[1]
                        right == lb.val[2]
                        cut == PySlice(self.major_labels, left, right)
                    IN [index |-> self,
                        res |-> Returned(LongPanelIndex(
                            PySlice(self.major_axis, i, j),
                            self.minor_axis,
                            [r \in 1..Len(cut) |-> cut[r] - i],
                            PySlice(self.minor_labels, left, right),
                            None))]

(***************************************************************************)
(* LongPanel and WidePanel.  A LongPanel's values are a sequence of rows,  *)
(* one per stacked observation, each a sequence with one value per item; a *)
(* WidePanel's values are one flattened N x K plane per item.              *)
(***************************************************************************)
LongPanel(values, items, index) ==
    [values |-> values, items |-> items, index |-> index]

WidePanel(values, items, major_axis, minor_axis) ==
    [values |-> values, items |-> items,
     major_axis |-> major_axis, minor_axis |-> minor_axis]

\* order of np.lexsort((second, first)): by first, ties by second, and stable
lexBefore(second, first, i, j) ==
    \/ first[i] < first[j]
    \/ first[i] = first[j] /\ second[i] < second[j]
    \/ first[i] = first[j] /\ second[i] = second[j] /\ i <= j

\* the indexer, as row numbers of the sequence
RECURSIVE lexsortFrom(_, _, _)
lexsortFrom(second, first, todo) ==
    IF todo = {} THEN <<>>
    ELSE LET m == CHOOSE i \in todo :
                    \A j \in todo : lexBefore(second, first, i, j)
         IN <<m>> \o lexsortFrom(second, first, todo \ {m})

lexsortFirstKeyFirst(second, first) ==
    lexsortFrom(first, second, 1..Len(first))

lexsort(second, first) == lexsortFrom(second, first, 1..Len(first))

take(a, indexer) == [r \in 1..Len(indexer) |-> a[indexer[r]]]

sortLeavesValues(self, axis) ==
    LET first == IF axis = "major" THEN self.index.major_labels
                 ELSE self.index.minor_labels
        second == IF axis = "major" THEN self.index.minor_labels
                  ELSE self.index.major_labels
        indexer == lexsortFrom(second, first, 1..Len(first))
    IN LongPanel(self.values, self.items,
                 LongPanelIndex(self.index.major_axis, self.index.minor_axis,
                                take(self.index.major_labels, indexer),
                                take(self.index.minor_labels, indexer),
                                None))

\* LongPanel.sort
sort(self, axis) ==
    LET first == IF axis = "major" THEN self.index.major_labels
                 ELSE self.index.minor_labels
        second == IF axis = "major" THEN self.index.minor_labels
                  ELSE self.index.major_labels
        indexer == lexsort(second, first)
        new_index == LongPanelIndex(self.index.major_axis,
                                    self.index.minor_axis,
                                    take(self.index.major_labels, indexer),
                                    take(self.index.minor_labels, indexer),
                                    None)
    IN LongPanel(take(self.values, indexer), self.items, new_index)

\* values[i].flat[mask] = column; values[i].flat[notmask] = NaN: the r-th
\* true cell of the mask receives the r-th entry of the column
scatter(mask, column) ==
    [c \in 1..Len(mask) |->
        IF mask[c] THEN column[Cardinality({d \in 1..c : mask[d]})]
        ELSE NaN]

toWideNoCheck(self) ==
    LET index == maskOf(self.index)
        mask == index.mask.val
        column(i) == [r \in 1..Len(self.values) |-> self.values[r][i]]
        values == [i \in 1..Len(self.items) |-> scatter(mask, column(i))]
    IN [self |-> [self EXCEPT !.index = index],
        res |-> Returned(WidePanel(values, self.items,
                                   self.index.major_axis,
                                   self.index.minor_axis))]

\* LongPanel.toWide: [self |-> the panel afterwards, res |-> outcome]
toWide(self) ==
    IF ~consistent(self.index)
    THEN [self |-> self, res |-> Raised("PanelError")]
    ELSE LET index == maskOf(self.index)
             mask == index.mask.val
             column(i) == [r \in 1..Len(self.values) |-> self.values[r][i]]
             values == [i \in 1..Len(self.items) |-> scatter(mask, column(i))]
         IN [self |-> [self EXCEPT !.index = index],
             res |-> Returned(WidePanel(values, self.items,
                                        self.index.major_axis,
                                        self.index.minor_axis))]

\* a[selector] for a boolean selector
RECURSIVE select(_, _)
select(a, selector) ==
    IF a = <<>> THEN <<>>
    ELSE IF Head(selector) THEN <<Head(a)>> \o select(Tail(a), Tail(selector))
         ELSE select(Tail(a), Tail(selector))

\* np.arange(N).repeat(K) and the tiled np.arange(K), flattened
repeatArange(N, K) == [c \in 1..(N * K) |-> (c - 1) \div K]
tileArange(N, K) == [c \in 1..(N * K) |-> (c - 1) % K]

toLongAnyItem(self, filter_observations) ==
    LET I == Len(self.items)
        N == Len(self.major_axis)
        K == Len(self.minor_axis)
        selector == [c \in 1..(N * K) |->
                        ~filter_observations
                        \/ I = 0
                        \/ \E i \in 1..I : isfinite(self.values[i][c])]
        columns == [i \in 1..I |-> select(self.values[i], selector)]
        major_labels == select(repeatArange(N, K), selector)
        minor_labels == select(tileArange(N, K), selector)
        values == [r \in 1..Len(major_labels) |->
                        [i \in 1..I |-> columns[i][r]]]
    IN LongPanel(values, self.items,
                 LongPanelIndex(self.major_axis, self.minor_axis,
                                major_labels, minor_labels,
                                IF filter_observations THEN Some(selector)
                                ELSE None))

\* WidePanel.toLong
toLong(self, filter_observations) ==
    LET I == Len(self.items)
        N == Len(self.major_axis)
        K == Len(self.minor_axis)
        mask == [c \in 1..(N * K) |->
                    \A i \in 1..I : isfinite(self.values[i][c])]
        selector == IF filter_observations THEN mask
                    ELSE [c \in 1..(N * K) |-> TRUE]
        columns == [i \in 1..I |-> select(self.values[i], selector)]
        major_labels == select(repeatArange(N, K), selector)
        minor_labels == select(tileArange(N, K), selector)
        values == [r \in 1..Len(major_labels) |->
                        [i \in 1..I |-> columns[i][r]]]
    IN LongPanel(values, self.items,
                 LongPanelIndex(self.major_axis, self.minor_axis,
                                major_labels, minor_labels,
                                IF filter_observations THEN Some(selector)
                                ELSE None))

(***************************************************************************)
(* group_agg.  A value buffer is [ndim, K, rows]: rows are scalars when    *)
(* ndim = 1 and sequences of K scalars when ndim = 2.  What a reduction    *)
(* function returns is [ndim, val]: ndim = 0 for a scalar.                 *)
(***************************************************************************)
columnOf(rows, c) == [r \in 1..Len(rows) |-> rows[r][c]]

\* the reduction functions handed in: np.sum(x, axis=0), len(x), and the
\* function that returns its argument (it does not aggregate)
applyF(f, ndim, K, rows) ==
    CASE f = "sum" ->
            IF ndim = 1 THEN [ndim |-> 0, val |-> SumSeq(rows)]
            ELSE [ndim |-> 1,
                  val |-> [c \in 1..K |-> SumSeq(columnOf(rows, c))]]
      [] f = "len" -> [ndim |-> 0, val |-> Len(rows)]
      [] f = "identity" -> [ndim |-> ndim, val |-> rows]

\* result[i] = r: what is stored, or ValueError when r does not fit one slot
storeGroup(ndim, K, r) ==
    IF ndim = 1
    THEN CASE r.ndim = 0 -> Returned(r.val)
           [] r.ndim = 1 /\ Len(r.val) = 1 -> Returned(r.val[1])
           [] OTHER -> Raised("ValueError")
    ELSE CASE r.ndim = 0 -> Returned([c \in 1..K |-> r.val])
           [] r.ndim = 1 /\ Len(r.val) = K -> Returned(r.val)
           [] r.ndim = 1 /\ Len(r.val) = 1 -> Returned([c \in 1..K |-> r.val[1]])
           [] r.ndim = 2 /\ Len(r.val) = 1 -> Returned(r.val[1])
           [] OTHER -> Raised("ValueError")

RECURSIVE groupLoopNoLast(_, _, _, _, _, _)
groupLoopNoLast(values, bounds, f, i, result, slices) ==
    IF i > Len(bounds)
    THEN [status |-> "ok", val |-> result, slices |-> slices]
    ELSE LET N == Len(values.rows)
             left_bound == bounds[i]
             right_bound == IF i = Len(bounds) THEN N - 1 ELSE bounds[i + 1]
             r == applyF(f, values.ndim, values.K,
                         PySlice(values.rows, left_bound, right_bound))
             stored == storeGroup(values.ndim, values.K, r)
         IN IF stored.status # "ok"
            THEN [status |-> stored.status, val |-> result, slices |-> slices]
            ELSE groupLoopNoLast(values, bounds, f, i + 1,
                                 Append(result, stored.val),
                                 Append(slices, <<left_bound, right_bound>>))

\* the loop of group_agg from group i on; result and slices are what has
\* been stored and which [left, right) has been reduced so far
RECURSIVE groupLoop(_, _, _, _, _, _)
groupLoop(values, bounds, f, i, result, slices) ==
    IF i > Len(bounds)
    THEN [status |-> "ok", val |-> result, slices |-> slices]
    ELSE LET N == Len(values.rows)
             left_bound == bounds[i]
             right_bound == IF i = Len(bounds) THEN N ELSE bounds[i + 1]
             r == applyF(f, values.ndim, values.K,
                         PySlice(values.rows, left_bound, right_bound))
             stored == storeGroup(values.ndim, values.K, r)
         IN IF stored.status # "ok"
            THEN [status |-> stored.status, val |-> result, slices |-> slices]
            ELSE groupLoop(values, bounds, f, i + 1,
                           Append(result, stored.val),
                           Append(slices, <<left_bound, right_bound>>))

\* group_agg: the probe f(values[:min(1, len(values))]), then the loop
group_agg(values, bounds, f) ==
    LET testagg == applyF(f, values.ndim, values.K,
                          PySlice(values.rows, 0, Min(1, Len(values.rows))))
    IN IF testagg.ndim = 2
       THEN [status |-> "Passed function does not aggregate!",
             val |-> <<>>, slices |-> <<>>]
       ELSE groupLoop(values, bounds, f, 1, <<>>, <<>>)

(***************************************************************************)
(* Inputs of the index specification                                       *)
(***************************************************************************)
\* the axes: the first N major labels (sorted, with gaps between them) and
\* the first K minor labels
MajorAxes == {SubSeq(MajorLabels, 1, N) : N \in 0..Len(MajorLabels)}
MinorAxes == {SubSeq(MinorLabels, 1, K) : K \in 0..Len(MinorLabels)}

PosSeqs(n, size) == [1..n -> 0..(size - 1)]

\* every index of at most MaxRows rows, in any row order, duplicates included
Indexes ==
    UNION { UNION { UNION {
        { LongPanelIndex(major, minor, ml, nl, None) :
            ml \in PosSeqs(n, Len(major)), nl \in PosSeqs(n, Len(minor)) }
        : n \in 0..MaxRows } : minor \in MinorAxes } : major \in MajorAxes }

\* before / after arguments: None, the labels, and values between and beyond
Bounds(index) == {None} \cup {Some(v) : v \in 0..(2 * Len(index.major_axis))}

(***************************************************************************)
(* Specification of one LongPanelIndex object and the calls made on it     *)
(***************************************************************************)
InitIndex ==
    /\ ix \in Indexes
    /\ ret = Idle
    /\ lp = None /\ wp = None /\ base = None /\ trace = <<>>
    /\ out = Idle /\ agg = Idle
    /\ DateIdle

Consistent ==
    /\ ret' = [op |-> "consistent", res |-> Returned(consistent(ix))]
    /\ UNCHANGED <<dateVars, ix, lp, wp, base, trace, out, agg>>

Mask ==
    /\ ix' = maskOf(ix)
    /\ ret' = [op |-> "mask", res |-> Returned(maskOf(ix).mask.val)]
    /\ UNCHANGED <<dateVars, lp, wp, base, trace, out, agg>>

BoundsAccess ==
    /\ ix' = boundsOf(ix)
    /\ ret' = [op |-> "_bounds", res |-> Returned(boundsOf(ix).bounds.val)]
    /\ UNCHANGED <<dateVars, lp, wp, base, trace, out, agg>>

GetMajorBounds ==
    \E begin \in Bounds(ix), end \in Bounds(ix) :
        LET r == get_major_bounds(ix, begin, end)
        IN /\ ix' = r.index
           /\ ret' = [op |-> "get_major_bounds", begin |-> begin, end |-> end,
                      res |-> r.res]
           /\ UNCHANGED <<dateVars, lp, wp, base, trace, out, agg>>

Truncate ==
    \E before \in Bounds(ix), after \in Bounds(ix) :
        LET r == truncate(ix, before, after)
        IN /\ ix' = r.index
           /\ ret' = [op |-> "truncate", begin |-> before, end |-> after,
                      res |-> r.res]
           /\ UNCHANGED <<dateVars, lp, wp, base, trace, out, agg>>

NextIndex == Consistent \/ Mask \/ BoundsAccess \/ GetMajorBounds \/ Truncate

SpecIndex == InitIndex /\ [][NextIndex]_vars

(***************************************************************************)
(* Properties of the index specification                                   *)
(***************************************************************************)
Sorted(s) == \A i \in 1..(Len(s) - 1) : s[i] <= s[i + 1]

HasRow(index, m, k) ==
    \E i \in 1..Len(index.major_labels) :
        index.major_labels[i] = m /\ index.minor_labels[i] = k

HasDuplicatePair(index) ==
    \E i, j \in 1..Len(index.major_labels) :
        /\ i # j
        /\ index.major_labels[i] = index.major_labels[j]
        /\ index.minor_labels[i] = index.minor_labels[j]

\* the index of TestLongPanelIndex.setUp
TestIndex ==
    LongPanelIndex(<<1, 2, 3, 4>>, <<1, 2>>,
                   <<0, 0, 1, 2, 3, 3>>, <<0, 1, 0, 1, 0, 1>>, None)

\* C1: consistent is false if and only if some (majorPos, minorPos) pair
\* occurs at two different rows, for any axis sizes and any row order.
C1_ConsistentIffNoDuplicate ==
    ret.op = "consistent" =>
        ((ret.res.val = FALSE) <=> HasDuplicatePair(ix))

C1_Witness ==
    /\ ret.op = "consistent"
    /\ ret.res.val = FALSE
    /\ HasDuplicatePair(ix)
    /\ Len(ix.major_axis) # Len(ix.minor_axis)

\* C5: the mask of an index built without a mask has length N_maj * N_min and
\* marks the flattened cell m * N_min + k exactly when some row is (m, k);
\* the index of the test suite gives [T,T,T,F,F,T,T,T].
C5_MaskMarksObservedCells ==
    /\ ret.op = "mask" =>
         LET N == Len(ix.major_axis)
             K == Len(ix.minor_axis)
             mask == ret.res.val
         IN /\ Len(mask) = N * K
            /\ ix.mask = Some(mask)
            /\ \A m \in 0..(N - 1), k \in 0..(K - 1) :
                  At(mask, m * K + k) <=> HasRow(ix, m, k)
    /\ maskOf(TestIndex).mask.val =
         <<TRUE, TRUE, TRUE, FALSE, FALSE, TRUE, TRUE, TRUE>>

C5_Witness ==
    /\ ret.op = "mask"
    /\ Len(ix.major_axis) = 2 /\ Len(ix.minor_axis) = 2
    /\ HasRow(ix, 1, 0) /\ ~HasRow(ix, 0, 1)
    /\ At(ret.res.val, 2) /\ ~At(ret.res.val, 1)

InRange(l, before, after) ==
    /\ before.some => before.val <= l
    /\ after.some => l <= after.val

RECURSIVE KeptRows(_, _, _, _)
KeptRows(index, before, after, r) ==
    IF r > Len(index.major_labels) THEN <<>>
    ELSE LET rest == KeptRows(index, before, after, r + 1)
         IN IF InRange(At(index.major_axis, index.major_labels[r]), before, after)
            THEN <<r>> \o rest ELSE rest

\* what truncate is to return: the labels in [before, after], the rows on
\* them, major positions counted from the first kept label
TruncateExpected(index, before, after) ==
    LET N == Len(index.major_axis)
        first == Cardinality({p \in 1..N :
                    before.some /\ index.major_axis[p] < before.val})
        kept == {p \in 1..N : InRange(index.major_axis[p], before, after)}
        rows == KeptRows(index, before, after, 1)
    IN [major_axis |->
            [q \in 1..Cardinality(kept) |-> index.major_axis[first + q]],
        minor_axis |-> index.minor_axis,
        major_labels |->
            [r \in 1..Len(rows) |-> index.major_labels[rows[r]] - first],
        minor_labels |->
            [r \in 1..Len(rows) |-> index.minor_labels[rows[r]]]]

TruncateAsExpected(index, before, after, res) ==
    /\ res.status = "ok"
    /\ LET e == TruncateExpected(index, before, after)
       IN /\ res.val.major_axis = e.major_axis
          /\ res.val.minor_axis = e.minor_axis
          /\ res.val.major_labels = e.major_labels
          /\ res.val.minor_labels = e.minor_labels
          /\ \A r \in 1..Len(res.val.major_labels) :
                res.val.major_labels[r] \in 0..(Len(res.val.major_axis) - 1)

Ordered(before, after) == (before.some /\ after.some) => before.val <= after.val

\* C7: with a sorted major axis and sorted majorPos, truncate(before, after)
\* returns the labels l with before <= l <= after, the rows on those labels
\* with minorPos unchanged and majorPos re-based to the first kept label.
C7_TruncateKeepsLabelRange ==
    (ret.op = "truncate" /\ Sorted(ix.major_labels) /\ Ordered(ret.begin, ret.end))
        => TruncateAsExpected(ix, ret.begin, ret.end, ret.res)

\* where C7 holds of the code: whenever some label is at or after before
C7_HoldsWhenBeginOnAxis ==
    (/\ ret.op = "truncate" /\ Sorted(ix.major_labels)
     /\ Ordered(ret.begin, ret.end)
     /\ \E p \in 1..Len(ix.major_axis) :
            ret.begin.some => ret.begin.val <= ix.major_axis[p])
        => TruncateAsExpected(ix, ret.begin, ret.end, ret.res)

\* where it does not: truncate raises IndexError whenever before is past the
\* last label (or the axis is empty)
C7_IndexErrorPastEnd ==
    (/\ ret.op = "truncate" /\ Ordered(ret.begin, ret.end)
     /\ \A p \in 1..Len(ix.major_axis) :
            ret.begin.some /\ ret.begin.val > ix.major_axis[p])
        => ret.res.status = "IndexError"

(***************************************************************************)
(* Specification of reshaping: a panel, long or wide, and the chain of     *)
(* sort / toWide / toLong calls made from it.  base is the panel the chain *)
(* started from, trace the calls made, lp and wp the latest LongPanel and  *)
(* WidePanel.                                                              *)
(***************************************************************************)
ItemLists == {SubSeq(ItemNames, 1, I) : I \in 0..Len(ItemNames)}

\* the sets of at most MaxMissing entries of an a x b array
MissingSets(a, b) ==
    {m \in SUBSET ((1..a) \X (1..b)) : Cardinality(m) <= MaxMissing}

\* values of a panel: every entry its own finite number but those missing
ValuesWith(a, b, missing) ==
    [r \in 1..a |-> [c \in 1..b |->
        IF <<r, c>> \in missing THEN NaN ELSE 10 * r + c]]

LongPanels ==
    UNION { UNION {
        { LongPanel(ValuesWith(Len(index.major_labels), Len(items), missing),
                    items, index) :
            missing \in MissingSets(Len(index.major_labels), Len(items)) }
        : index \in Indexes } : items \in ItemLists }

WidePanels ==
    UNION { UNION { UNION {
        { WidePanel(ValuesWith(Len(items), Len(major) * Len(minor), missing),
                    items, major, minor) :
            missing \in MissingSets(Len(items), Len(major) * Len(minor)) }
        : items \in ItemLists } : major \in MajorAxes } : minor \in MinorAxes }

InitReshape ==
    /\ \/ \E p \in LongPanels :
            lp = Some(p) /\ wp = None /\ base = [kind |-> "long", panel |-> p]
       \/ \E w \in WidePanels :
            lp = None /\ wp = Some(w) /\ base = [kind |-> "wide", panel |-> w]
    /\ trace = <<>>
    /\ out = Idle
    /\ ix = None /\ ret = Idle /\ agg = Idle
    /\ DateIdle

Sort ==
    /\ lp.some
    /\ Len(trace) < MaxOps
    /\ \E axis \in {"major", "minor"} :
        /\ lp' = Some(sort(lp.val, axis))
        /\ trace' = Append(trace, IF axis = "major" THEN "sort" ELSE "sort_minor")
        /\ out' = [op |-> "sort", res |-> Returned(axis)]
    /\ UNCHANGED <<dateVars, wp, base, ix, ret, agg>>

ToWide ==
    /\ lp.some
    /\ Len(trace) < MaxOps
    /\ LET r == toWide(lp.val)
       IN /\ lp' = Some(r.self)
          /\ wp' = IF r.res.status = "ok" THEN Some(r.res.val) ELSE wp
          /\ out' = [op |-> "toWide", res |-> Raised(r.res.status)]
          /\ trace' = Append(trace, IF r.res.status = "ok" THEN "toWide"
                                    ELSE "toWide raised")
    /\ UNCHANGED <<dateVars, base, ix, ret, agg>>

ToLong ==
    /\ wp.some
    /\ Len(trace) < MaxOps
    /\ \E filter_observations \in BOOLEAN :
        /\ lp' = Some(toLong(wp.val, filter_observations))
        /\ trace' = Append(trace, IF filter_observations THEN "toLong"
                                  ELSE "toLong unfiltered")
        /\ out' = [op |-> "toLong", res |-> Returned(filter_observations)]
    /\ UNCHANGED <<dateVars, wp, base, ix, ret, agg>>

NextReshape == Sort \/ ToWide \/ ToLong

SpecReshape == InitReshape /\ [][NextReshape]_vars

(***************************************************************************)
(* Properties of the reshape specification                                 *)
(***************************************************************************)
AllFinite(panel) ==
    \A r \in 1..Len(panel.values) : \A i \in 1..Len(panel.items) :
        isfinite(panel.values[r][i])

\* the stacked rows of a LongPanel as (major label, minor label, values)
RowsOf(panel) ==
    { <<At(panel.index.major_axis, panel.index.major_labels[r]),
        At(panel.index.minor_axis, panel.index.minor_labels[r]),
        panel.values[r]>> : r \in 1..Len(panel.values) }

\* C2: toWide raises PanelError whenever the index is not consistent, giving
\* no WidePanel and leaving values and index as they were, and never raises
\* PanelError when the index is consistent.
C2_ToWideRaisesIffInconsistent ==
    [][ (out'.op = "toWide" /\ Len(trace') = Len(trace) + 1) =>
          IF HasDuplicatePair(lp.val.index)
          THEN /\ out'.res.status = "PanelError"
               /\ wp' = wp
               /\ lp' = lp
          ELSE out'.res.status # "PanelError" ]_vars

C2_Witness ==
    /\ out.op = "toWide"
    /\ out.res.status = "PanelError"
    /\ trace = <<"toWide raised">>
    /\ wp = None
    /\ HasDuplicatePair(lp.val.index)
    /\ Len(lp.val.items) = 2

\* C3 as claimed, read for panels that have at least one item: for a
\* consistent LongPanel P with all values finite, in any row order,
\* P.toWide().toLong(filter_observations=True) has exactly P's rows.
C3_RoundTripAnyOrder ==
    (/\ trace = <<"toWide", "toLong">>
     /\ base.kind = "long"
     /\ Len(base.panel.items) >= 1
     /\ AllFinite(base.panel))
        => RowsOf(lp.val) = RowsOf(base.panel)

\* C3 amended: for a consistent LongPanel P with at least one item and all
\* values finite, in any row order,
\* P.sort(axis='major').toWide().toLong(filter_observations=True) has exactly
\* P's rows.
C3_RoundTripAfterSort ==
    (/\ trace = <<"sort", "toWide", "toLong">>
     /\ base.kind = "long"
     /\ Len(base.panel.items) >= 1
     /\ AllFinite(base.panel))
        => /\ RowsOf(lp.val) = RowsOf(base.panel)
           /\ Len(lp.val.values) = Len(base.panel.values)

C3_Witness ==
    /\ trace = <<"sort", "toWide", "toLong">>
    /\ base.kind = "long"
    /\ Len(base.panel.items) = 2
    /\ AllFinite(base.panel)
    /\ Len(base.panel.values) = 2
    /\ ~Sorted(base.panel.index.major_labels)
    /\ base.panel.values[1] # base.panel.values[2]
    /\ RowsOf(lp.val) = RowsOf(base.panel)

\* C4: for a consistent LongPanel P in any row order, P.sort(axis='major')
\* .toWide() is a cube where, for every item and every row i of P, cell
\* (majorPos[i], minorPos[i]) holds the row's value, and every cell with no
\* row holds NaN.
C4_SortedToWideScatters ==
    (trace = <<"sort", "toWide">> /\ base.kind = "long") =>
        LET P == base.panel
            N == Len(P.index.major_axis)
            K == Len(P.index.minor_axis)
            cube == wp.val.values
        IN /\ Len(cube) = Len(P.items)
           /\ \A i \in 1..Len(P.items) :
                /\ Len(cube[i]) = N * K
                /\ \A r \in 1..Len(P.values) :
                      At(cube[i], P.index.major_labels[r] * K
                                    + P.index.minor_labels[r]) = P.values[r][i]
                /\ \A m \in 0..(N - 1), k \in 0..(K - 1) :
                      ~HasRow(P.index, m, k) => At(cube[i], m * K + k) = NaN

C4_Witness ==
    /\ trace = <<"sort", "toWide">>
    /\ base.kind = "long"
    /\ Len(base.panel.items) = 1
    /\ Len(base.panel.index.major_axis) = 2
    /\ Len(base.panel.index.minor_axis) = 2
    /\ base.panel.index.major_labels = <<1, 0>>
    /\ base.panel.index.minor_labels = <<0, 1>>
    /\ base.panel.values = <<<<11>>, <<21>>>>
    /\ wp.val.values = <<<<NaN, 21, 11, NaN>>>>

FullyObserved(wide, c) ==
    \A i \in 1..Len(wide.items) : isfinite(wide.values[i][c])

\* C6: toLong(filter_observations=True) emits exactly one row for each cell
\* in which every item is finite and none for any other cell; with
\* filter_observations=False it emits one row per cell, N_maj * N_min rows.
\* Either way the (majorPos, minorPos) pairs are pairwise distinct and in
\* ascending (major, minor) order.
C6_ToLongEmitsCells ==
    (out.op = "toLong" /\ Len(trace) = 1 /\ base.kind = "wide") =>
        LET W == base.panel
            N == Len(W.major_axis)
            K == Len(W.minor_axis)
            index == lp.val.index
            n == Len(index.major_labels)
            emitted(c) == Cardinality({r \in 1..n :
                                index.major_labels[r] * K
                                    + index.minor_labels[r] + 1 = c})
        IN /\ Len(index.minor_labels) = n
           /\ Len(lp.val.values) = n
           /\ \A r \in 1..n : /\ index.major_labels[r] \in 0..(N - 1)
                              /\ index.minor_labels[r] \in 0..(K - 1)
           /\ \A c \in 1..(N * K) :
                emitted(c) = IF out.res.val => FullyObserved(W, c) THEN 1 ELSE 0
           /\ n = Cardinality({c \in 1..(N * K) :
                                out.res.val => FullyObserved(W, c)})
           /\ ~out.res.val => n = N * K
           /\ \A r \in 1..(n - 1) :
                \/ index.major_labels[r] < index.major_labels[r + 1]
                \/ /\ index.major_labels[r] = index.major_labels[r + 1]
                   /\ index.minor_labels[r] < index.minor_labels[r + 1]
           /\ \A r \in 1..n : \A i \in 1..Len(W.items) :
                lp.val.values[r][i] =
                    At(W.values[i], index.major_labels[r] * K
                                        + index.minor_labels[r])

C6_Witness ==
    /\ out.op = "toLong" /\ out.res.val
    /\ trace = <<"toLong">>
    /\ base.kind = "wide"
    /\ Len(base.panel.items) = 2
    /\ base.panel.values = <<<<11, NaN, 13, 14>>, <<21, 22, NaN, 24>>>>
    /\ lp.val.index.major_labels = <<0, 1>>
    /\ lp.val.index.minor_labels = <<0, 1>>

(***************************************************************************)
(* Specification of group_agg calls                                        *)
(***************************************************************************)
Scalars == {1, 2}

\* N-length buffers, and N x K buffers with one column per item
AggValues ==
    UNION { { [ndim |-> 1, K |-> 0, rows |-> rows] :
                rows \in [1..n -> Scalars] }
            \cup
            UNION { { [ndim |-> 2, K |-> K, rows |-> rows] :
                        rows \in [1..n -> [1..K -> Scalars]] }
                    : K \in 1..Len(ItemNames) }
          : n \in 0..MaxAggRows }

\* bounds arrays: one entry per group, at least one group, in any order
AggBounds(values) ==
    UNION { [1..b -> 0..Len(values.rows)] : b \in 1..MaxGroups }

ReduceFns == {"sum", "len", "identity"}

InitAgg ==
    /\ \E values \in AggValues : \E bounds \in AggBounds(values) :
        \E f \in ReduceFns :
            agg = [op |-> "call", values |-> values, bounds |-> bounds,
                   f |-> f]
    /\ ix = None /\ ret = Idle
    /\ lp = None /\ wp = None /\ base = None /\ trace = <<>> /\ out = Idle
    /\ DateIdle

GroupAgg ==
    /\ agg.op = "call"
    /\ agg' = [op |-> "group_agg", values |-> agg.values,
               bounds |-> agg.bounds, f |-> agg.f,
               res |-> group_agg(agg.values, agg.bounds, agg.f)]
    /\ UNCHANGED <<dateVars, ix, ret, lp, wp, base, trace, out>>

NextAgg == GroupAgg

SpecAgg == InitAgg /\ [][NextAgg]_vars

(***************************************************************************)
(* Properties of the group_agg specification                               *)
(***************************************************************************)
\* rows l .. r-1 of the buffer (0-based, half-open)
RowsBetween(rows, l, r) ==
    LET picked == {q \in 1..Len(rows) : l <= q - 1 /\ q - 1 < r}
        first == Cardinality({q \in 1..Len(rows) : q - 1 < l})
    IN [q \in 1..Cardinality(picked) |-> rows[first + q]]

\* the value f gives on a slice, as one slot of the result
Reduced(f, values, slice) ==
    CASE f = "sum" /\ values.ndim = 1 -> SumSeq(slice)
      [] f = "sum" /\ values.ndim = 2 ->
            [c \in 1..values.K |-> SumSeq(columnOf(slice, c))]
      [] f = "len" /\ values.ndim = 1 -> Len(slice)
      [] f = "len" /\ values.ndim = 2 -> [c \in 1..values.K |-> Len(slice)]

NonDecreasingFromZero(bounds) ==
    /\ Len(bounds) >= 1
    /\ bounds[1] = 0
    /\ Sorted(bounds)

\* C9: group_agg returns one result per entry of bounds, result[i] being f of
\* values[bounds[i] : bounds[i+1]] and the last f of values[bounds[last] : N];
\* for non-decreasing bounds from 0 every row is reduced in exactly one
\* group; values [1..6] with bounds [0,2,2,4] and sum give [3, 0, 7, 11].
C9_GroupAggSlices ==
    /\ (agg.op = "group_agg" /\ agg.f \in {"sum", "len"}) =>
         LET N == Len(agg.values.rows)
             B == Len(agg.bounds)
             right(i) == IF i = B THEN N ELSE agg.bounds[i + 1]
         IN /\ agg.res.status = "ok"
            /\ Len(agg.res.val) = B
            /\ \A i \in 1..B :
                 agg.res.val[i] =
                    Reduced(agg.f, agg.values,
                            RowsBetween(agg.values.rows, agg.bounds[i], right(i)))
            /\ NonDecreasingFromZero(agg.bounds) =>
                 \A q \in 0..(N - 1) :
                    Cardinality({i \in 1..Len(agg.res.slices) :
                                    /\ agg.res.slices[i][1] <= q
                                    /\ q < agg.res.slices[i][2]}) = 1
    /\ group_agg([ndim |-> 1, K |-> 0, rows |-> <<1, 2, 3, 4, 5, 6>>],
                 <<0, 2, 2, 4>>, "sum").val = <<3, 0, 7, 11>>

C9_Witness ==
    /\ agg.op = "group_agg"
    /\ agg.f = "sum"
    /\ agg.values.ndim = 2 /\ agg.values.K = 2
    /\ agg.values.rows = <<<<1, 2>>, <<2, 2>>, <<1, 1>>>>
    /\ agg.bounds = <<0, 2>>
    /\ agg.res.val = <<<<3, 4>>, <<1, 1>>>>
    /\ agg.res.slices = <<<<0, 2>>, <<2, 3>>>>

\* the function returned something of the buffer's own dimension for the
\* probe: it did not reduce the rows to one value (per column)
ProbeNotAggregated(a) ==
    /\ Len(a.values.rows) >= 1
    /\ applyF(a.f, a.values.ndim, a.values.K,
              PySlice(a.values.rows, 0, Min(1, Len(a.values.rows)))).ndim
            >= a.values.ndim

\* C10: group_agg fails, before computing any group result, whenever the
\* function applied to the size-1 probe returns a non-scalar (it does not
\* aggregate), for one- and for two-dimensional buffers.
C10_NonAggregatingRejected ==
    (agg.op = "group_agg" /\ ProbeNotAggregated(agg)) =>
        /\ agg.res.status # "ok"
        /\ agg.res.val = <<>>

\* what the code does: the guard fires for every two-dimensional buffer ...
C10_RejectedFor2D ==
    (agg.op = "group_agg" /\ ProbeNotAggregated(agg) /\ agg.values.ndim = 2) =>
        /\ agg.res.status = "Passed function does not aggregate!"
        /\ agg.res.val = <<>>

\* ... and never for a one-dimensional one
C10_NeverRejectedFor1D ==
    (agg.op = "group_agg" /\ agg.values.ndim = 1) =>
        agg.res.status # "Passed function does not aggregate!"

BoundsCorrect(index) ==
    LET b == index.bounds.val
    IN /\ Len(b) = Len(index.major_axis)
       /\ \A k \in 0..(Len(b) - 1) :
            At(b, k) = Cardinality({i \in 1..Len(index.major_labels) :
                                        index.major_labels[i] < k})

\* C8: for sorted majorPos, _bounds has length N_maj and _bounds[k] is the
\* number of rows with majorPos < k; once computed, every later access,
\* after any truncate, get_major_bounds or mask call, returns that array.
C8_BoundsComputedOnce ==
    [][ /\ (ix'.bounds.some /\ Sorted(ix'.major_labels)) => BoundsCorrect(ix')
        /\ ix.bounds.some => ix'.bounds = ix.bounds
        /\ ret'.op = "_bounds" => ret'.res.val = ix'.bounds.val ]_vars

C8_Witness ==
    /\ ret.op = "_bounds"
    /\ ix.mask.some
    /\ Sorted(ix.major_labels)
    /\ Len(ix.major_labels) = 2
    /\ Len(ix.major_axis) = 2
    /\ ix.major_labels[1] = 1
    /\ ret.res.val = <<0, 0>>

(***************************************************************************)
(* Series.reindex and DataMatrix.reindex.  An index is a sequence of       *)
(* unique labels; the values of a container are one entry per label (a     *)
(* whole row for a DataMatrix).                                            *)
(***************************************************************************)
\* str.upper() on the fill methods handed in
upper(str) ==
    CASE str \in {"pad", "Pad", "PAD"} -> "PAD"
      [] str \in {"backfill", "BACKFILL"} -> "BACKFILL"
      [] str = "interpolate" -> "INTERPOLATE"
      [] str = "" -> ""

\* the position of a label known to be in the index
positionOf(index, label) == (CHOOSE p \in 1..Len(index) : index[p] = label) - 1

\* tseries.getFillVec(oldIndex, newIndex, oldMap, newMap, kind): for every
\* new label the position of its source in the old index, -1 and a False
\* mask entry where there is none
getFillVec(oldIndex, newIndex, kind) ==
    LET sources(l) ==
            CASE kind = "" -> {x \in 1..Len(oldIndex) : oldIndex[x] = l}
              [] kind = "PAD" -> {x \in 1..Len(oldIndex) : oldIndex[x] <= l}
              [] kind = "BACKFILL" -> {x \in 1..Len(oldIndex) : oldIndex[x] >= l}
        best(l) ==
            IF kind = "BACKFILL"
            THEN CHOOSE x \in sources(l) :
                    \A y \in sources(l) : oldIndex[x] <= oldIndex[y]
            ELSE CHOOSE x \in sources(l) :
                    \A y \in sources(l) : oldIndex[x] >= oldIndex[y]
    IN [fillVec |-> [j \in 1..Len(newIndex) |->
                        IF sources(newIndex[j]) = {} THEN -1
                        ELSE best(newIndex[j]) - 1],
        mask |-> [j \in 1..Len(newIndex) |-> sources(newIndex[j]) # {}]]

\* tseries.reindex(newIndex, values, idxMap): the value at each new label,
\* NaN where the old index does not hold it
tseries_reindex(newIndex, oldIndex, values) ==
    [j \in 1..Len(newIndex) |->
        IF \E x \in 1..Len(oldIndex) : oldIndex[x] = newIndex[j]
        THEN At(values, positionOf(oldIndex, newIndex[j]))
        ELSE NaN]

\* ndarray.take(indices) and a[indices]: a negative index counts from the end
takeAt(values, indices) ==
    [j \in 1..Len(indices) |->
        IF indices[j] < 0 THEN At(values, Len(values) + indices[j])
        ELSE At(values, indices[j])]

\* newValues[-mask] = NaN
maskedFill(values, mask) ==
    [j \in 1..Len(values) |-> IF mask[j] THEN values[j] ELSE NaN]

reindexUnmasked(values, fill) == takeAt(values, fill.fillVec)

\* newValues = values.take(fillVec); newValues[-mask] = NaN
reindexGather(values, fill) ==
    maskedFill(takeAt(values, fill.fillVec), fill.mask)

\* Series.reindex(newIndex, fillMethod); same: newIndex is self.index
Series_reindex(index, values, newIndex, same, fillMethod) ==
    IF ~fillMethod.some
    THEN IF same THEN Returned([index |-> index, values |-> values])
         ELSE Returned([index |-> newIndex,
                        values |-> tseries_reindex(newIndex, index, values)])
    ELSE IF Len(index) = 0
    THEN Returned([index |-> newIndex,
                   values |-> [j \in 1..Len(newIndex) |-> NaN]])
    ELSE LET kind == upper(fillMethod.val)
         IN IF kind \notin {"BACKFILL", "PAD", ""}
            THEN Raised("Don't recognize fillMethod")
            ELSE Returned([index |-> newIndex,
                           values |-> reindexGather(values,
                                        getFillVec(index, newIndex, kind))])

\* DataMatrix.reindex(newIndex, fillMethod)
DataMatrix_reindex(index, values, newIndex, same, fillMethod) ==
    IF same THEN Returned([index |-> index, values |-> values])
    ELSE IF Len(newIndex) = 0
    THEN Returned([index |-> <<>>, values |-> <<>>])
    ELSE IF Len(index) = 0
    THEN Returned([index |-> newIndex,
                   values |-> [j \in 1..Len(newIndex) |-> NaN]])
    ELSE LET kind == IF fillMethod.some THEN upper(fillMethod.val) ELSE ""
         IN IF kind \notin {"BACKFILL", "PAD", ""}
            THEN Raised("Don't recognize fillMethod")
            ELSE Returned([index |-> newIndex,
                           values |-> reindexGather(values,
                                        getFillVec(index, newIndex, kind))])

(***************************************************************************)
(* Specification of one reindex call                                       *)
(***************************************************************************)
ReindexLabels == {1, 2, 3, 4}

RECURSIVE SortedSeqOf(_)
SortedSeqOf(S) ==
    IF S = {} THEN <<>>
    ELSE LET least == CHOOSE x \in S : \A y \in S : x <= y
         IN <<least>> \o SortedSeqOf(S \ {least})

\* the indexes reindexed from: sorted ascending, labels unique
OldIndexes == {SortedSeqOf(S) : S \in SUBSET ReindexLabels}

\* the indexes reindexed onto: labels unique, in any order
NewIndexes ==
    UNION { {q \in [1..k -> ReindexLabels] :
                \A a, b \in 1..k : a # b => q[a] # q[b]}
            : k \in 0..MaxNew }

\* one finite value per old label, each its own
ValuesOf(index) == [p \in 1..Len(index) |-> 10 * p]

FillMethods ==
    {None} \cup {Some(m) : m \in {"", "pad", "Pad", "PAD", "backfill",
                                  "BACKFILL", "interpolate"}}

InitReindex ==
    /\ \E kind \in {"Series", "DataMatrix"}, index \in OldIndexes,
          newIndex \in NewIndexes, fillMethod \in FillMethods,
          same \in BOOLEAN :
        /\ same => newIndex = index
        /\ rx = [op |-> "call", kind |-> kind, index |-> index,
                 values |-> ValuesOf(index), newIndex |-> newIndex,
                 same |-> same, fillMethod |-> fillMethod]
    /\ off = Idle /\ req = Idle /\ cache = <<>> /\ calls = <<>>
    /\ PanelIdle

Reindex ==
    /\ rx.op = "call"
    /\ rx' = [rx EXCEPT !.op = "reindex"] @@
             [res |-> IF rx.kind = "Series"
                      THEN Series_reindex(rx.index, rx.values, rx.newIndex,
                                          rx.same, rx.fillMethod)
                      ELSE DataMatrix_reindex(rx.index, rx.values, rx.newIndex,
                                              rx.same, rx.fillMethod)]
    /\ UNCHANGED <<panelVars, off, req, cache, calls>>

NextReindex == Reindex

SpecReindex == InitReindex /\ [][NextReindex]_vars

(***************************************************************************)
(* Properties of the reindex specification                                 *)
(***************************************************************************)
\* the policy a fill method names, "unsupported" when it names none
PolicyOf(fillMethod) ==
    CASE ~fillMethod.some -> "none"
      [] fillMethod.val = "" -> "none"
      [] fillMethod.val \in {"pad", "Pad", "PAD"} -> "pad"
      [] fillMethod.val \in {"backfill", "BACKFILL"} -> "backfill"
      [] OTHER -> "unsupported"

\* the positions of the old labels a policy allows as the source of label l
Candidates(index, l, policy) ==
    CASE policy = "none" -> {x \in 1..Len(index) : index[x] = l}
      [] policy = "pad" -> {x \in 1..Len(index) : index[x] <= l}
      [] policy = "backfill" -> {x \in 1..Len(index) : index[x] >= l}

\* the value the claim gives label l
Resolved(index, values, l, policy) ==
    LET c == Candidates(index, l, policy)
    IN IF c = {} THEN NaN
       ELSE IF policy = "backfill"
       THEN values[CHOOSE x \in c : \A y \in c : index[x] <= index[y]]
       ELSE values[CHOOSE x \in c : \A y \in c : index[x] >= index[y]]

\* C11: for an old index sorted ascending, reindex returns for each new
\* label l the old value at l (no fill method), at the greatest old label
\* <= l ('pad') or at the smallest old label >= l ('backfill'), and a
\* missing value where there is no such label.
C11_ReindexResolvesByPolicy ==
    (rx.op = "reindex" /\ rx.res.status = "ok") =>
        /\ PolicyOf(rx.fillMethod) # "unsupported" =>
            /\ Len(rx.res.val.values) = Len(rx.res.val.index)
            /\ \A j \in 1..Len(rx.res.val.index) :
                rx.res.val.values[j] =
                    Resolved(rx.index, rx.values, rx.res.val.index[j],
                             PolicyOf(rx.fillMethod))
        /\ (PolicyOf(rx.fillMethod) # "unsupported" /\ rx.kind = "Series") =>
                rx.res.val.index = rx.newIndex

\* a pad over a gap, a label before the first old label, and an exact hit
C11_Witness ==
    /\ rx.op = "reindex"
    /\ rx.kind = "Series"
    /\ rx.fillMethod = Some("pad")
    /\ rx.index = <<2, 4>>
    /\ rx.newIndex = <<3, 1, 4>>
    /\ rx.res.status = "ok"
    /\ rx.res.val.values = <<10, NaN, 20>>

\* C12: reindex fails if and only if the fill method is not one of the
\* supported policies; under a supported policy it returns a result whose
\* labels without a source hold missing values.
C12_FailsIffUnsupportedPolicy ==
    rx.op = "reindex" =>
        (rx.res.status # "ok" <=> PolicyOf(rx.fillMethod) = "unsupported")

\* ... it does fail when both indexes are non-empty and distinct objects
C12_FailsOnNonEmptyIndexes ==
    (/\ rx.op = "reindex"
     /\ Len(rx.index) > 0 /\ Len(rx.newIndex) > 0 /\ ~rx.same) =>
        (rx.res.status # "ok" <=> PolicyOf(rx.fillMethod) = "unsupported")

\* ... and it never fails under a supported policy
C12_NeverFailsWhenSupported ==
    (rx.op = "reindex" /\ PolicyOf(rx.fillMethod) # "unsupported") =>
        rx.res.status = "ok"

(***************************************************************************)
(* Dates and date offsets.  A datetime is a count of ticks, TicksPerDay    *)
(* ticks to the day, tick 0 being midnight of a Monday (2024-01-01); a     *)
(* date whose tick of the day is not 0 carries a time of day.              *)
(***************************************************************************)
TicksPerDay == 2

timedelta(numDays) == numDays * TicksPerDay

\* datetime.weekday(): 0 is Monday
weekday(dt) == (dt \div TicksPerDay) % 7

normalize_date(dt) == dt - (dt % TicksPerDay)

\* a rule: BDay(n), Week(n, dayOfWeek=...), DateOffset(n) (n days) and a
\* Tick of n ticks; dayOfWeek is None but for a Week that selects a weekday
Offset(kind, n, dayOfWeek) == [kind |-> kind, n |-> n, dayOfWeek |-> dayOfWeek]

BDay(n) == Offset("BDay", n, None)
Week(n, dayOfWeek) == Offset("Week", n, dayOfWeek)
DateOffset(n) == Offset("DateOffset", n, None)
Tick(n) == Offset("Tick", n, None)

\* offset.__class__(n, **offset.kwds)
withN(offset, n) == [offset EXCEPT !.n = n]

_normalizeFirst(offset) == offset.kind \in {"BDay", "Week"}

isAnchored(offset) ==
    IF offset.kind = "Week" THEN offset.n = 1 /\ offset.dayOfWeek.some
    ELSE offset.n = 1

\* n / abs(n) for n # 0
signOf(n) == IF n > 0 THEN 1 ELSE -1

\* the loop of BDay.apply
RECURSIVE bdayLoop(_, _)
bdayLoop(result, n) ==
    IF n = 0 THEN result
    ELSE LET next == result + timedelta(signOf(n))
         IN bdayLoop(next, IF weekday(next) < 5 THEN n - signOf(n) ELSE n)

BDay_apply(offset, other) ==
    LET n == IF offset.n = 0 /\ weekday(other) > 4 THEN 1 ELSE offset.n
    IN normalize_date(bdayLoop(other, n))

Week_apply(offset, other) ==
    IF ~offset.dayOfWeek.some THEN other + offset.n * timedelta(7)
    ELSE LET otherDay == weekday(other)
             onDay == otherDay = offset.dayOfWeek.val
             moved == IF onDay THEN other
                      ELSE other + timedelta((offset.dayOfWeek.val - otherDay) % 7)
         IN IF offset.n > 0
            THEN moved + (IF onDay THEN offset.n ELSE offset.n - 1) * timedelta(7)
            ELSE moved - (0 - offset.n) * timedelta(7)

\* other + offset
apply(offset, other) ==
    CASE offset.kind = "BDay" -> BDay_apply(offset, other)
      [] offset.kind = "Week" -> Week_apply(offset, other)
      [] offset.kind = "DateOffset" -> other + timedelta(offset.n)
      [] offset.kind = "Tick" -> other + offset.n

\* other - offset
minus(other, offset) == apply(withN(offset, 0 - offset.n), other)

onOffset(offset, someDate) ==
    CASE offset.kind = "BDay" -> weekday(someDate) < 5
      [] offset.kind = "Week" ->
            offset.dayOfWeek.some /\ weekday(someDate) = offset.dayOfWeek.val
      [] OTHER ->
            someDate = minus(apply(withN(offset, 1), someDate), withN(offset, 1))

rollback(offset, someDate) ==
    LET d == IF _normalizeFirst(offset) THEN normalize_date(someDate)
             ELSE someDate
    IN IF ~onOffset(offset, d) THEN minus(d, withN(offset, 1)) ELSE d

rollforward(offset, someDate) ==
    LET d == IF _normalizeFirst(offset) THEN normalize_date(someDate)
             ELSE someDate
    IN IF ~onOffset(offset, d) THEN apply(withN(offset, 1), d) ELSE d

(***************************************************************************)
(* Specification of one date offset applied to one date                    *)
(***************************************************************************)
Multipliers == {-2, -1, 0, 1, 2}

Weekdays == 0..6

Offsets ==
    {BDay(n) : n \in Multipliers}
    \cup {Week(n, None) : n \in Multipliers}
    \cup {Week(n, Some(w)) : n \in Multipliers, w \in Weekdays}
    \cup {DateOffset(n) : n \in Multipliers}
    \cup {Tick(n) : n \in Multipliers}

\* the datetimes of days 0..MaxDay, with every time of day
Datetimes == 0..(timedelta(MaxDay + 1) - 1)

InitOffset ==
    /\ \E offset \in Offsets, dt \in Datetimes :
        off = [op |-> "call", offset |-> offset, date |-> dt]
    /\ rx = Idle /\ req = Idle /\ cache = <<>> /\ calls = <<>>
    /\ PanelIdle

Apply ==
    /\ off' = [op |-> "apply", offset |-> off.offset, date |-> off.date,
               res |-> apply(off.offset, off.date)]
    /\ UNCHANGED <<panelVars, rx, req, cache, calls>>

Rollback ==
    /\ off' = [op |-> "rollback", offset |-> off.offset, date |-> off.date,
               res |-> rollback(off.offset, off.date)]
    /\ UNCHANGED <<panelVars, rx, req, cache, calls>>

Rollforward ==
    /\ off' = [op |-> "rollforward", offset |-> off.offset, date |-> off.date,
               res |-> rollforward(off.offset, off.date)]
    /\ UNCHANGED <<panelVars, rx, req, cache, calls>>

NextOffset == Apply \/ Rollback \/ Rollforward

SpecOffset == InitOffset /\ [][NextOffset]_vars

(***************************************************************************)
(* Properties of the date offset specification                             *)
(***************************************************************************)
\* the spacing of a rule's labels: a tick for a Tick, a day for the others
Spacing(offset) == IF offset.kind = "Tick" THEN 1 ELSE timedelta(1)

\* the labels of the rule's grid through dt that lie k steps from it, for k
\* up to three weeks: far enough for the multipliers of the model
Horizon == 3 * 7

\* the k-th on-offset label after (dir = 1) or before (dir = -1) dt; None
\* when the rule has fewer on-offset labels on that side
RECURSIVE NthOnOffset(_, _, _, _, _)
NthOnOffset(offset, dt, dir, k, left) ==
    IF k = 0 THEN Some(dt)
    ELSE IF left = 0 THEN None
    ELSE LET next == dt + dir * Spacing(offset)
         IN NthOnOffset(offset, next, dir,
                        IF onOffset(offset, next) THEN k - 1 ELSE k, left - 1)

\* what C19 says dt + offset is
Shifted(offset, dt) ==
    CASE offset.n > 0 ->
            NthOnOffset(offset, rollback(offset, dt), 1, offset.n, Horizon)
      [] offset.n < 0 ->
            NthOnOffset(offset, rollforward(offset, dt), -1, 0 - offset.n,
                        Horizon)
      [] OTHER -> Some(rollforward(offset, dt))

\* C19: d + rule is the n-th on-offset label after rollback(d) when n > 0,
\* the |n|-th on-offset label before rollforward(d) when n < 0, and
\* rollforward(d) when n = 0.
C19_ApplyCountsOnOffsetLabels ==
    off.op = "apply" => Some(off.res) = Shifted(off.offset, off.date)

\* ... which holds of every rule but a Week without a weekday, on dates
\* that carry no time of day
C19_HoldsAtMidnight ==
    (/\ off.op = "apply"
     /\ ~(off.offset.kind = "Week" /\ ~off.offset.dayOfWeek.some)
     /\ normalize_date(off.date) = off.date) =>
        Some(off.res) = Shifted(off.offset, off.date)

\* ... and of every rule but Week on every date
C19_HoldsButForWeek ==
    (off.op = "apply" /\ off.offset.kind # "Week") =>
        Some(off.res) = Shifted(off.offset, off.date)

\* the on-offset datetimes from three weeks before to three weeks after dt
Around(offset, dt) ==
    {x \in (dt - timedelta(Horizon))..(dt + timedelta(Horizon)) :
        onOffset(offset, x)}

\* C20: rollback(d) is the greatest on-offset label <= d and rollforward(d)
\* the smallest on-offset label >= d; both return d unchanged when d is
\* on-offset and both results satisfy onOffset.
C20_RollsToNearestOnOffset ==
    /\ off.op = "rollback" =>
        /\ onOffset(off.offset, off.res)
        /\ off.res <= off.date
        /\ \A x \in Around(off.offset, off.date) : x <= off.date => x <= off.res
        /\ onOffset(off.offset, off.date) => off.res = off.date
    /\ off.op = "rollforward" =>
        /\ onOffset(off.offset, off.res)
        /\ off.res >= off.date
        /\ \A x \in Around(off.offset, off.date) : x >= off.date => x >= off.res
        /\ onOffset(off.offset, off.date) => off.res = off.date

\* the on-offset dates without a time of day around dt
MidnightsAround(offset, dt) ==
    {x \in Around(offset, dt) : normalize_date(x) = x}

\* ... which holds, among dates that carry no time of day, of every rule
\* but a Week without a weekday
C20_HoldsAtMidnight ==
    (/\ off.op \in {"rollback", "rollforward"}
     /\ ~(off.offset.kind = "Week" /\ ~off.offset.dayOfWeek.some)
     /\ normalize_date(off.date) = off.date) =>
        /\ onOffset(off.offset, off.res)
        /\ onOffset(off.offset, off.date) => off.res = off.date
        /\ off.op = "rollback" =>
            /\ off.res <= off.date
            /\ \A x \in MidnightsAround(off.offset, off.date) :
                    x <= off.date => x <= off.res
        /\ off.op = "rollforward" =>
            /\ off.res >= off.date
            /\ \A x \in MidnightsAround(off.offset, off.date) :
                    x >= off.date => x >= off.res

\* ... while a Week without a weekday has no on-offset date at all
C20_WeekWithoutWeekdayNeverOnOffset ==
    (/\ off.op \in {"rollback", "rollforward"}
     /\ off.offset.kind = "Week" /\ ~off.offset.dayOfWeek.some) =>
        ~onOffset(off.offset, off.res)


(***************************************************************************)
(* Date ranges: XDateRange, DateRange and the cache of canonical ranges    *)
(***************************************************************************)
\* constant CACHE_START, a Sunday as 1950-01-01 is
CACHE_START == timedelta(6)

\* constant CACHE_END, a Tuesday as 2030-01-01 is
CACHE_END == timedelta(15)

\* someInt * offset
times(someInt, offset) == withN(offset, someInt * offset.n)

\* an argument that to_datetime leaves as it is: not a datetime
NotADate == [some |-> TRUE, text |-> "not a date"]

isDatetime(arg) == arg.some /\ "val" \in DOMAIN arg

\* lines 45-46: fromDate rolled forward when it is off-offset
rolledFrom(fromDate, offset) ==
    IF fromDate.some /\ ~onOffset(offset, fromDate.val)
    THEN Some(apply(withN(offset, 1), fromDate.val))
    ELSE fromDate

\* lines 47-48: toDate rolled back when it is off-offset
rolledTo(toDate, offset) ==
    IF toDate.some /\ ~onOffset(offset, toDate.val)
    THEN Some(minus(toDate.val, withN(offset, 1)))
    ELSE toDate

\* lines 49-62 for the rolled dates; toDate < fromDate is evaluated when
\* toDate was rolled and nPeriods is None
bounded(from1, to1, rolled, nPeriods, offset) ==
    LET compared == rolled /\ ~nPeriods.some
        emptied == compared /\ from1.some /\ to1.val < from1.val
        to2 == IF emptied THEN None ELSE to1
        nPeriods2 == IF emptied THEN Some(0) ELSE nPeriods
    IN  IF compared /\ ~from1.some THEN Raised("TypeError")
        ELSE IF ~to2.some /\ (~nPeriods2.some \/ ~from1.some)
        THEN Raised("TypeError")
        ELSE IF ~from1.some /\ ~nPeriods2.some THEN Raised("TypeError")
        ELSE [status |-> "ok",
              fromDate |->
                 IF from1.some THEN from1.val
                 ELSE minus(to2.val, times(nPeriods2.val - 1, offset)),
              toDate |->
                 IF to2.some THEN to2.val
                 ELSE apply(times(nPeriods2.val - 1, offset), from1.val)]

\* XDateRange.__init__: the bounds of the generator, or the error raised
XDateRange_init(fromDate, toDate, nPeriods, offset) ==
    IF (fromDate.some /\ ~isDatetime(fromDate)) \/ (toDate.some /\ ~isDatetime(toDate))
    THEN Raised("TypeError")
    ELSE bounded(rolledFrom(fromDate, offset), rolledTo(toDate, offset),
                 toDate.some /\ ~onOffset(offset, toDate.val), nPeriods, offset)

\* a label put in front of the labels a generator goes on to yield
yield(cur, rest) ==
    IF rest.status = "ok" THEN Returned(<<cur>> \o rest.val) ELSE rest

\* the loop of XDateRange.__iter__ run to its end by list(): a rule that does
\* not move cur forward never leaves the loop; the list grows without end
\* when cur stays ("MemoryError") and datetime's range is left when cur
\* goes backward ("OverflowError")
RECURSIVE iterate(_, _, _)
iterate(offset, cur, toDate) ==
    IF ~(cur <= toDate) THEN Returned(<<>>)
    ELSE LET next == apply(offset, cur)
         IN IF next = cur THEN Raised("MemoryError")
            ELSE IF next < cur THEN Raised("OverflowError")
            ELSE yield(cur, iterate(offset, next, toDate))

\* list() of the generator, or the error its construction raised
listed(xdr, offset) ==
    IF xdr.status # "ok" THEN xdr
    ELSE iterate(offset,
                 IF _normalizeFirst(offset) THEN normalize_date(xdr.fromDate)
                 ELSE xdr.fromDate,
                 xdr.toDate)

\* list(XDateRange(fromDate, toDate, nPeriods, offset))
XDateRange(fromDate, toDate, nPeriods, offset) ==
    listed(XDateRange_init(fromDate, toDate, nPeriods, offset), offset)

\* date in index.indexMap
contains(index, date) == \E p \in 1..Len(index) : index[p] = date

\* Index.asOfDate: the label equal to the date or the greatest label before
\* it, None when there is none
asOfDate(index, date) ==
    LET before == {p \in 1..Len(index) : index[p] <= date}
    IN IF before = {} THEN None
       ELSE Some(index[CHOOSE p \in before : \A q \in before : q <= p])

\* line 84: one past the position of the label found, KeyError for None
locAfter(index, asOf) ==
    IF ~asOf.some THEN Raised("KeyError")
    ELSE Returned(positionOf(index, asOf.val) + 1)

_getIndexLoc(index, date) ==
    IF contains(index, date) THEN Returned(positionOf(index, date))
    ELSE locAfter(index, asOfDate(index, date))

\* seq[lo:hi] of Python: a negative position counts from the end and both
\* positions are clipped to the sequence
slice(seq, lo, hi) ==
    LET clip(i) == IF i < 0 THEN Max(i + Len(seq), 0) ELSE Min(i, Len(seq))
    IN IF clip(lo) >= clip(hi) THEN <<>>
       ELSE SubSeq(seq, clip(lo) + 1, clip(hi))

\* the position one past the end of a slice that stops at the date
endLocOf(cachedRange, end) ==
    IF ~contains(cachedRange, end) THEN _getIndexLoc(cachedRange, end)
    ELSE Returned(positionOf(cachedRange, end) + 1)

\* XDateRange(CACHE_START, CACHE_END, offset=offset) listed
canonical(offset) == XDateRange(Some(CACHE_START), Some(CACHE_END), None, offset)

\* lines 152-161 of getCachedRange: the cache after the rule was looked up,
\* built being the range generated when the rule is not there
stored(_cache, offset, built) ==
    IF offset \notin DOMAIN _cache THEN (offset :> built.val) @@ _cache
    ELSE _cache

\* lines 174, 180, 189: the slice between the positions, or the error
\* raised while they were located
between(cachedRange, startLoc, endLoc) ==
    IF startLoc.status # "ok" THEN startLoc
    ELSE IF endLoc.status # "ok" THEN endLoc
    ELSE Returned(slice(cachedRange, startLoc.val, endLoc.val))

\* lines 174 and 180: a position moved by the periods
moved(loc, periods) ==
    IF loc.status # "ok" THEN loc ELSE Returned(loc.val + periods)

\* lines 175-180: start and no end; start is located before periods is
\* looked at
fromStart(cachedRange, startLoc, periods) ==
    IF startLoc.status # "ok" THEN startLoc
    ELSE IF ~periods.some THEN Raised("Exception")
    ELSE between(cachedRange, startLoc, moved(startLoc, periods.val))

\* lines 169-174: end and no start
toEnd(cachedRange, endLoc, periods) ==
    between(cachedRange, moved(endLoc, 0 - periods.val), endLoc)

\* lines 163-192 of getCachedRange: the slice of the cached range
sliced(cachedRange, start, end, periods) ==
    IF ~start.some
    THEN IF ~end.some THEN Raised("Exception")
         ELSE IF ~periods.some THEN Raised("Exception")
         ELSE toEnd(cachedRange, endLocOf(cachedRange, end.val), periods)
    ELSE IF ~end.some
    THEN fromStart(cachedRange, _getIndexLoc(cachedRange, start.val), periods)
    ELSE between(cachedRange, _getIndexLoc(cachedRange, start.val),
                 endLocOf(cachedRange, end.val))

\* lines 163-192 on the cache left by lines 152-161
served(after, start, end, periods, offset) ==
    [res |-> sliced(after[offset], start, end, periods), cache |-> after]

\* lines 152-192 when the rule is not in the cache: nothing is stored when
\* generating its range fails
generated(_cache, start, end, periods, offset, built) ==
    IF built.status # "ok" THEN [res |-> built, cache |-> _cache]
    ELSE served(stored(_cache, offset, built), start, end, periods, offset)

\* DateRange.getCachedRange: what the call returns or raises, and the cache
\* it leaves
getCachedRange(_cache, start, end, periods, offset) ==
    IF (start.some /\ ~isDatetime(start)) \/ (end.some /\ ~isDatetime(end))
    THEN [res |-> Raised("Exception"), cache |-> _cache]
    ELSE IF offset \notin DOMAIN _cache
    THEN generated(_cache, start, end, periods, offset, canonical(offset))
    ELSE served(_cache, start, end, periods, offset)

\* a test that sends every rule but a Tick to the cache
cachableUnanchored(offset) == offset.kind # "Tick"

\* the test of DateRange.__new__ that sends a request to the cache
cachable(offset) == isAnchored(offset) /\ offset.kind # "Tick"

\* DateRange.__new__ without the index keyword: periods that are not true
\* give way to the absent keyword nPeriods
DateRange(_cache, fromDate, toDate, periods, offset) ==
    IF cachable(offset)
    THEN getCachedRange(_cache, fromDate, toDate,
                        IF periods = Some(0) THEN None ELSE periods, offset)
    ELSE [res |-> XDateRange(fromDate, toDate,
                             IF periods = Some(0) THEN None ELSE periods, offset),
          cache |-> _cache]

(***************************************************************************)
(* Specification of one date range built from one set of arguments         *)
(***************************************************************************)
RangeMultipliers == {-1, 0, 1, 2}

\* the rules ranges are built with: every kind, Week with a weekday
\* (Monday) and without one
RangeOffsets ==
    {o \in Offsets : /\ o.n \in RangeMultipliers
                     /\ o.dayOfWeek.some => o.dayOfWeek.val = weekday(0)}

OptDatetimes == {None} \cup {Some(dt) : dt \in Datetimes}

OptPeriods == {None} \cup {Some(k) : k \in 0..MaxPeriods}

InitRange ==
    /\ \E fromDate \in OptDatetimes, toDate \in OptDatetimes,
          periods \in OptPeriods, offset \in RangeOffsets :
        rx = [op |-> "call", fromDate |-> fromDate, toDate |-> toDate,
              periods |-> periods, offset |-> offset]
    /\ off = Idle /\ req = Idle /\ cache = <<>> /\ calls = <<>>
    /\ PanelIdle

\* list(XDateRange(fromDate, toDate, nPeriods, offset))
ListXDateRange ==
    /\ rx.op = "call"
    /\ rx' = [rx EXCEPT !.op = "XDateRange"] @@
             [res |-> XDateRange(rx.fromDate, rx.toDate, rx.periods, rx.offset)]
    /\ UNCHANGED <<panelVars, off, req, cache, calls>>

\* DateRange(fromDate, toDate, periods, offset)
NewDateRange ==
    /\ rx.op = "call"
    /\ \E made \in {DateRange(cache, rx.fromDate, rx.toDate, rx.periods, rx.offset)} :
          /\ rx' = [rx EXCEPT !.op = "DateRange"] @@ [res |-> made.res]
          /\ cache' = made.cache
    /\ UNCHANGED <<panelVars, off, req, calls>>

NextRange == ListXDateRange \/ NewDateRange

SpecRange == InitRange /\ [][NextRange]_vars

(***************************************************************************)
(* Properties of the date range specification                              *)
(***************************************************************************)
\* a range was built and returned
Built == rx.op \in {"XDateRange", "DateRange"} /\ rx.res.status = "ok"

Increasing(labels) ==
    \A p \in 1..Len(labels), q \in 1..Len(labels) : p < q => labels[p] < labels[q]

WeekWithoutWeekday(offset) == offset.kind = "Week" /\ ~offset.dayOfWeek.some

\* C13: the labels of every range that is built are strictly increasing,
\* every label satisfies the rule's onOffset, and every label lies between
\* fromDate and toDate when both are given
C13_RangeLabelsOnOffsetWithinBounds ==
    Built =>
        /\ Increasing(rx.res.val)
        /\ \A p \in 1..Len(rx.res.val) : onOffset(rx.offset, rx.res.val[p])
        /\ (rx.fromDate.some /\ rx.toDate.some) =>
              \A p \in 1..Len(rx.res.val) :
                 rx.fromDate.val <= rx.res.val[p] /\ rx.res.val[p] <= rx.toDate.val

\* the labels of every range that is built are strictly increasing
C13_LabelsIncrease == Built => Increasing(rx.res.val)

\* but for a Week without a weekday every label of a range is on-offset
C13_OnOffsetButForWeekWithoutWeekday ==
    (Built /\ ~WeekWithoutWeekday(rx.offset)) =>
        \A p \in 1..Len(rx.res.val) : onOffset(rx.offset, rx.res.val[p])

\* a Week without a weekday yields no on-offset label at all
C13_WeekWithoutWeekdayLabelsOffOffset ==
    (Built /\ WeekWithoutWeekday(rx.offset)) =>
        \A p \in 1..Len(rx.res.val) : ~onOffset(rx.offset, rx.res.val[p])

\* a Week without a weekday does yield labels
C13_WeekWithoutWeekdayYieldsLabels ==
    Built /\ WeekWithoutWeekday(rx.offset) /\ Len(rx.res.val) >= 2

\* labels lie between the bounds when fromDate carries no time of day
C13_WithinBoundsFromMidnight ==
    (/\ Built /\ rx.fromDate.some /\ rx.toDate.some
     /\ normalize_date(rx.fromDate.val) = rx.fromDate.val) =>
        \A p \in 1..Len(rx.res.val) :
           rx.fromDate.val <= rx.res.val[p] /\ rx.res.val[p] <= rx.toDate.val

\* how many of fromDate, toDate and periods the call supplies
Supplied ==
    Cardinality({a \in {"fromDate", "toDate", "periods"} : rx[a].some})

\* C14: a range is built only when exactly two of fromDate, toDate and
\* periods are supplied; with all three, one or none of them the call fails
C14_BuiltOnlyFromTwoArguments ==
    rx.op \in {"XDateRange", "DateRange"} =>
        (rx.res.status = "ok" => Supplied = 2)

\* with one or none of the three arguments the call fails
C14_FailsWithFewerThanTwo ==
    (rx.op \in {"XDateRange", "DateRange"} /\ Supplied < 2) =>
        rx.res.status # "ok"

\* with all three arguments a range is built on the direct and on the cached
\* path, periods being ignored
C14_BuiltFromThreeDirect ==
    /\ rx.op = "XDateRange" /\ Supplied = 3 /\ rx.res.status = "ok"
    /\ Len(rx.res.val) # rx.periods.val

C14_BuiltFromThreeCached ==
    /\ rx.op = "DateRange" /\ cachable(rx.offset) /\ Supplied = 3
    /\ rx.res.status = "ok" /\ Len(rx.res.val) # rx.periods.val

\* the first on-offset label on the side dir of a date that is off-offset,
\* looked for a day (a tick for a Tick) at a time from the date and from its
\* midnight
NearestOnOffset(offset, dt, dir) ==
    {NthOnOffset(offset, dt, dir, 1, Horizon),
     NthOnOffset(offset, normalize_date(dt), dir, 1, Horizon)} \ {None}

\* a range asked for by fromDate and periods >= 1
FromPeriods ==
    /\ rx.op \in {"XDateRange", "DateRange"}
    /\ rx.fromDate.some /\ ~rx.toDate.some
    /\ rx.periods.some /\ rx.periods.val >= 1

\* a range asked for by toDate and periods >= 1
ToPeriods ==
    /\ rx.op \in {"XDateRange", "DateRange"}
    /\ ~rx.fromDate.some /\ rx.toDate.some
    /\ rx.periods.some /\ rx.periods.val >= 1

\* what C15 says of the range in rx
PeriodsCounted ==
    /\ FromPeriods =>
          /\ rx.res.status = "ok"
          /\ Len(rx.res.val) = rx.periods.val
          /\ IF onOffset(rx.offset, rx.fromDate.val)
             THEN rx.res.val[1] = rx.fromDate.val
             ELSE Some(rx.res.val[1]) \in NearestOnOffset(rx.offset, rx.fromDate.val, 1)
    /\ ToPeriods =>
          /\ rx.res.status = "ok"
          /\ Len(rx.res.val) = rx.periods.val
          /\ IF onOffset(rx.offset, rx.toDate.val)
             THEN rx.res.val[Len(rx.res.val)] = rx.toDate.val
             ELSE Some(rx.res.val[Len(rx.res.val)])
                     \in NearestOnOffset(rx.offset, rx.toDate.val, -1)

\* C15: a range built from fromDate and periods = p >= 1 has p labels and
\* starts at fromDate or at the first on-offset label after it; a range
\* built from toDate and periods = p has p labels and ends at toDate or at
\* the last on-offset label before it; on the cached and on the direct path
C15_PeriodsCountedFromAnchor == PeriodsCounted

\* the dates between the labels the cache holds for the rule, far enough
\* from both ends for MaxPeriods labels
WellInsideWindow(offset, dt) ==
    LET labels == canonical(offset).val
    IN /\ Len(labels) > 2 * MaxPeriods
       /\ labels[MaxPeriods + 1] <= dt
       /\ dt <= labels[Len(labels) - MaxPeriods]

\* C15 holds of a rule with a positive multiplier, but for a Week without a
\* weekday, when the date has no time of day and, on the cached path, lies
\* well inside the cached window
C15_HoldsAtMidnightInsideWindow ==
    (/\ rx.op \in {"XDateRange", "DateRange"}
     /\ rx.offset.n >= 1 /\ ~WeekWithoutWeekday(rx.offset)
     /\ rx.fromDate.some => normalize_date(rx.fromDate.val) = rx.fromDate.val
     /\ rx.toDate.some => normalize_date(rx.toDate.val) = rx.toDate.val
     /\ (rx.op = "DateRange" /\ cachable(rx.offset)) =>
            /\ rx.fromDate.some => WellInsideWindow(rx.offset, rx.fromDate.val)
            /\ rx.toDate.some => WellInsideWindow(rx.offset, rx.toDate.val))
    => PeriodsCounted

\* the scenario of business days from a Monday with periods = MaxPeriods
C15_BusinessDaysFromMonday ==
    /\ FromPeriods /\ rx.offset = BDay(1) /\ rx.periods.val = MaxPeriods
    /\ rx.fromDate.val = timedelta(7)
    /\ rx.res = Returned([k \in 1..MaxPeriods |-> timedelta(6 + k)])

\* a range asked of DateRange with a rule that is served from the cache
ServedFromCache == rx.op = "DateRange" /\ cachable(rx.offset)

\* what direct generation gives for the arguments in rx
Direct == XDateRange(rx.fromDate, rx.toDate, rx.periods, rx.offset)

\* C17: for an anchored rule that is not a Tick the labels sliced from the
\* cached range are the labels direct generation yields for the same
\* arguments, whatever fromDate, toDate and periods are
C17_CachedSliceEqualsDirect ==
    ServedFromCache =>
        IF Direct.status = "ok" THEN rx.res = Direct ELSE rx.res.status # "ok"

\* the two paths agree when the dates are on-offset, have no time of day and
\* lie well inside the cached window, and periods is not 0
C17_AgreesOnOffsetInsideWindow ==
    (/\ ServedFromCache
     /\ rx.periods # Some(0)
     /\ rx.fromDate.some =>
           /\ onOffset(rx.offset, rx.fromDate.val)
           /\ normalize_date(rx.fromDate.val) = rx.fromDate.val
           /\ WellInsideWindow(rx.offset, rx.fromDate.val)
     /\ rx.toDate.some =>
           /\ onOffset(rx.offset, rx.toDate.val)
           /\ normalize_date(rx.toDate.val) = rx.toDate.val
           /\ WellInsideWindow(rx.offset, rx.toDate.val))
    => IF Direct.status = "ok" THEN rx.res = Direct ELSE rx.res.status # "ok"

\* an on-offset fromDate with a time of day inside the window for which the
\* cached path starts a label later than the direct path
C17_DiffersOnTimeOfDay ==
    /\ ServedFromCache /\ rx.fromDate.some /\ ~rx.toDate.some
    /\ WellInsideWindow(rx.offset, rx.fromDate.val)
    /\ onOffset(rx.offset, rx.fromDate.val)
    /\ rx.res.status = "ok" /\ Direct.status = "ok"
    /\ Len(rx.res.val) = MaxPeriods /\ Len(Direct.val) = MaxPeriods
    /\ rx.res.val[1] > Direct.val[1]

(***************************************************************************)
(* Specification of a sequence of DateRange constructions over one cache   *)
(***************************************************************************)
MaxRequests == 3

\* the rules of the requests: anchored ones, a Week without a weekday, a
\* multiple and a Tick
CacheOffsets ==
    {BDay(1), DateOffset(1), Week(1, Some(weekday(0))), Week(1, None),
     BDay(2), Tick(1)}

\* the arguments of the requests: absent, not a date, or a date in the
\* cached window
CacheRequests ==
    [fromDate : {None, NotADate, Some(CACHE_START + timedelta(2))},
     toDate : {None, NotADate, Some(CACHE_END - timedelta(2))},
     periods : {None, Some(MaxPeriods - 1)},
     offset : CacheOffsets]

InitCache ==
    /\ cache = <<>>
    /\ calls = <<>>
    /\ req = Idle
    /\ rx = Idle /\ off = Idle
    /\ PanelIdle

\* one more DateRange(fromDate, toDate, periods, offset)
Request ==
    /\ Len(calls) < MaxRequests
    /\ \E r \in CacheRequests :
         \E made \in {DateRange(cache, r.fromDate, r.toDate, r.periods, r.offset)} :
           /\ req' = [op |-> "DateRange", fromDate |-> r.fromDate,
                      toDate |-> r.toDate, periods |-> r.periods,
                      offset |-> r.offset, res |-> made.res]
           /\ cache' = made.cache
           /\ calls' = Append(calls, r.offset)
    /\ UNCHANGED <<panelVars, rx, off>>

NextCache == Request

SpecCache == InitCache /\ [][NextCache]_vars

(***************************************************************************)
(* Properties of the cache specification                                   *)
(***************************************************************************)
\* the rules of the requests made before the last one
RequestedBefore(log) == {log[k] : k \in 1..(Len(log) - 1)}

\* entries stay as they are
EntriesKept ==
    \A rule \in DOMAIN cache : rule \in DOMAIN cache' /\ cache'[rule] = cache[rule]

\* a rule with multiplier 1 that is not a Tick
AnchoredNonTick(offset) == offset.n = 1 /\ offset.kind # "Tick"

\* the request carries no date that is not a datetime
DatesValid(r) ==
    /\ r.fromDate.some => isDatetime(r.fromDate)
    /\ r.toDate.some => isDatetime(r.toDate)

\* the labels returned are a run of the labels of the entry
ServedFromEntry(labels, entry) ==
    \E lo \in 1..(Len(entry) + 1), hi \in 0..Len(entry) :
        labels = SubSeq(entry, lo, hi)

\* C16 as stated: the cache gains an entry for a rule only on the first
\* request with an anchored rule that is not a Tick and equals it, entries
\* are never changed or removed and serve later requests, and requests with
\* other rules and requests that fail leave the cache unchanged
C16_FailedRequestsLeaveCache ==
    [][/\ EntriesKept
       /\ \A rule \in DOMAIN cache' \ DOMAIN cache :
             /\ rule = req'.offset /\ AnchoredNonTick(rule)
             /\ rule \notin RequestedBefore(calls')
       /\ (req'.offset \in DOMAIN cache' /\ req'.res.status = "ok") =>
             ServedFromEntry(req'.res.val, cache'[req'.offset])
       /\ (~AnchoredNonTick(req'.offset) \/ req'.res.status # "ok") =>
             cache' = cache]_vars

\* C16 amended: the cache gains an entry for a rule only on a request with an
\* anchored rule that is not a Tick and equals it, made with dates that are
\* datetimes or absent while the cache holds no entry of the rule, whether
\* the request then returns a range or fails; entries are never changed or
\* removed and serve later requests; requests with other rules and requests
\* with a date that is not a datetime leave the cache unchanged
C16_CacheGainsOnceKeepsForever ==
    [][/\ EntriesKept
       /\ \A rule \in DOMAIN cache' \ DOMAIN cache :
             /\ rule = req'.offset /\ AnchoredNonTick(rule)
             /\ DatesValid(req')
       /\ (req'.offset \in DOMAIN cache' /\ req'.res.status = "ok") =>
             ServedFromEntry(req'.res.val, cache'[req'.offset])
       /\ (~AnchoredNonTick(req'.offset) \/ ~DatesValid(req')) =>
             cache' = cache]_vars

\* the cache holds the entry of an earlier request and gained a second one
\* on a later request with another rule that failed after its entry was
\* stored
C16_Witness ==
    /\ Len(calls) >= 2
    /\ req.res.status # "ok" /\ DatesValid(req)
    /\ req.offset \notin RequestedBefore(calls)
    /\ req.offset \in DOMAIN cache
    /\ calls[1] \in DOMAIN cache /\ calls[1] # req.offset

\* a failed request left an entry in the cache
C16_FailedRequestStored ==
    /\ Len(calls) = 1 /\ req.res.status # "ok" /\ req.offset \in DOMAIN cache

(***************************************************************************)
(* Specification of concurrent first calls of getCachedRange for one rule: *)
(* every caller runs lines 152-192 a statement at a time                   *)
(***************************************************************************)
MaxCallers == 2

\* the anchored rules that are not Ticks
RaceOffsets == {offset \in RangeOffsets : cachable(offset)}

\* the arguments of a caller: two of start, end and periods, or start alone
RaceArguments ==
    {[start |-> Some(CACHE_START + timedelta(2)), end |-> None,
      periods |-> Some(MaxPeriods - 1)],
     [start |-> None, end |-> Some(CACHE_END - timedelta(2)),
      periods |-> Some(MaxPeriods - 1)],
     [start |-> Some(CACHE_START + timedelta(2)),
      end |-> Some(CACHE_END - timedelta(2)), periods |-> None],
     [start |-> Some(CACHE_START + timedelta(2)), end |-> None,
      periods |-> None]}

InitRace ==
    /\ \E offset \in RaceOffsets :
         \E arguments \in [1..MaxCallers -> RaceArguments] :
            calls = [c \in 1..MaxCallers |->
                        [pc |-> "check", offset |-> offset,
                         arguments |-> arguments[c]]]
    /\ cache = <<>>
    /\ rx = Idle /\ off = Idle /\ req = Idle
    /\ PanelIdle

\* the cache that forgets what is stored
storeNothing(_cache, offset, cachedRange) == _cache

\* cls._cache[offset] = cachedRange
store(_cache, offset, cachedRange) ==
    [rule \in DOMAIN _cache \cup {offset} |->
        IF rule = offset THEN cachedRange ELSE _cache[rule]]

\* line 152: if offset not in cls._cache; line 161 when it is there
CheckAbsent ==
    /\ \E c \in 1..MaxCallers :
        /\ calls[c].pc = "check"
        /\ calls' = [calls EXCEPT ![c] =
                        IF calls[c].offset \notin DOMAIN cache
                        THEN [calls[c] EXCEPT !.pc = "build"] @@
                             [found |-> FALSE]
                        ELSE [calls[c] EXCEPT !.pc = "slice"] @@
                             [found |-> TRUE,
                              cachedRange |-> cache[calls[c].offset]]]
    /\ UNCHANGED <<panelVars, rx, off, req, cache>>

\* lines 153-157: the canonical range is generated
BuildRange ==
    /\ \E c \in 1..MaxCallers :
        /\ calls[c].pc = "build"
        /\ calls' = [calls EXCEPT ![c] =
                        [calls[c] EXCEPT !.pc = "store"] @@
                        [cachedRange |-> canonical(calls[c].offset).val]]
    /\ UNCHANGED <<panelVars, rx, off, req, cache>>

\* line 159: cls._cache[offset] = cachedRange
StoreRange ==
    /\ \E c \in 1..MaxCallers :
        /\ calls[c].pc = "store"
        /\ cache' = store(cache, calls[c].offset, calls[c].cachedRange)
        /\ calls' = [calls EXCEPT ![c].pc = "slice"]
    /\ UNCHANGED <<panelVars, rx, off, req>>

\* lines 163-192: the caller slices the range it holds
SliceRange ==
    /\ \E c \in 1..MaxCallers :
        /\ calls[c].pc = "slice"
        /\ calls' = [calls EXCEPT ![c] =
                        [calls[c] EXCEPT !.pc = "done"] @@
                        [res |-> sliced(calls[c].cachedRange,
                                        calls[c].arguments.start,
                                        calls[c].arguments.end,
                                        calls[c].arguments.periods)]]
    /\ UNCHANGED <<panelVars, rx, off, req, cache>>

NextRace == CheckAbsent \/ BuildRange \/ StoreRange \/ SliceRange

SpecRace == InitRace /\ [][NextRace]_vars

(***************************************************************************)
(* Properties of the concurrent calls                                      *)
(***************************************************************************)
\* what the call returns or raises when it runs alone on an empty cache
Sequential(call) ==
    getCachedRange(<<>>, call.arguments.start, call.arguments.end,
                   call.arguments.periods, call.offset).res

\* C18: however the first calls of getCachedRange for one rule interleave,
\* every caller gets what it would get from a call run alone, and when all
\* are done the cache holds one entry, the canonical range of the rule
C18_RacingCallersAgree ==
    /\ \A c \in 1..MaxCallers :
          calls[c].pc = "done" => calls[c].res = Sequential(calls[c])
    /\ (\A c \in 1..MaxCallers : calls[c].pc = "done") =>
          /\ DOMAIN cache = {calls[1].offset}
          /\ cache[calls[1].offset] =
                XDateRange(Some(CACHE_START), Some(CACHE_END), None,
                           calls[1].offset).val

\* two callers both found the cache empty, both built and stored the range,
\* and all callers are done, the two with different ranges returned
C18_Witness ==
    /\ \A c \in 1..MaxCallers : calls[c].pc = "done"
    /\ \E c \in 1..MaxCallers, d \in 1..MaxCallers :
          /\ c # d
          /\ ~calls[c].found /\ ~calls[d].found
          /\ calls[c].res.status = "ok" /\ Len(calls[c].res.val) >= 2
          /\ calls[d].res.status = "ok"
          /\ calls[c].res # calls[d].res
    /\ calls[1].offset \in DOMAIN cache

\* two callers are about to store at once
C18_BothStore ==
    \E c \in 1..MaxCallers, d \in 1..MaxCallers :
        c # d /\ calls[c].pc = "store" /\ calls[d].pc = "store"

(***************************************************************************)
(* Rules as objects: the attributes of an instance, among them the ones    *)
(* its methods set after construction                                      *)
(***************************************************************************)
\* the instance a constructor returns: the rule, the keyword days of a plain
\* DateOffset (None when it takes none) and the attribute _delta a Tick
\* sets on itself, None while the instance has none
construct(offset, days) == [offset |-> offset, days |-> days, _delta |-> None]

\* DateOffset._params: the class and every instance attribute but kwds
_params(self) ==
    [class |-> self.offset.kind, n |-> self.offset.n,
     dayOfWeek |-> self.offset.dayOfWeek, _delta |-> self._delta]

\* DateOffset.__eq__
__eq__(self, other) == _params(self) = _params(other)

\* DateOffset.__hash__: the hash of the parameter tuple
__hash__(self) == [hash |-> _params(self)]

\* the property delta of a Tick: computed once and kept on the instance
delta(self) ==
    IF self._delta.some THEN self._delta.val ELSE self.offset.n

\* the instance after other + self: a Tick has kept its delta
applied(self) ==
    IF self.offset.kind = "Tick" THEN [self EXCEPT !._delta = Some(delta(self))]
    ELSE self

\* other + self for an instance
plus(self, other) ==
    CASE self.offset.kind = "Tick" -> other + delta(self)
      [] self.offset.kind = "DateOffset" /\ self.days.some ->
            other + timedelta(self.offset.n * self.days.val)
      [] OTHER -> apply(self.offset, other)

\* -self and someInt * self: a new instance of the class with the keywords
scaled(self, someInt) ==
    construct(withN(self.offset, someInt * self.offset.n), self.days)

(***************************************************************************)
(* Specification of one rule instance used in a sequence of calls          *)
(***************************************************************************)
InitRule ==
    /\ \E offset \in Offsets :
        off = [op |-> "construct", rule |-> construct(offset, None),
               arguments |-> offset]
    /\ rx = Idle /\ req = Idle /\ cache = <<>> /\ calls = <<>>
    /\ PanelIdle

\* someDate + rule
RuleAdd ==
    /\ \E someDate \in Datetimes :
        off' = [op |-> "add", rule |-> applied(off.rule),
                arguments |-> off.arguments,
                res |-> plus(off.rule, someDate)]
    /\ UNCHANGED <<panelVars, rx, req, cache, calls>>

\* rule.onOffset(someDate), rule.rollback(someDate), rule.rollforward(someDate):
\* the instances they add to the date are new ones
RuleRoll ==
    /\ \E someDate \in Datetimes :
        \/ off' = [op |-> "onOffset", rule |-> off.rule,
                   arguments |-> off.arguments,
                   res |-> onOffset(off.rule.offset, someDate)]
        \/ off' = [op |-> "rollback", rule |-> off.rule,
                   arguments |-> off.arguments,
                   res |-> rollback(off.rule.offset, someDate)]
        \/ off' = [op |-> "rollforward", rule |-> off.rule,
                   arguments |-> off.arguments,
                   res |-> rollforward(off.rule.offset, someDate)]
    /\ UNCHANGED <<panelVars, rx, req, cache, calls>>

\* -rule and someInt * rule
RuleScale ==
    /\ \E someInt \in Multipliers :
        off' = [op |-> "scale", rule |-> off.rule,
                arguments |-> off.arguments,
                res |-> scaled(off.rule, someInt)]
    /\ UNCHANGED <<panelVars, rx, req, cache, calls>>

NextRule == RuleAdd \/ RuleRoll \/ RuleScale

SpecRule == InitRule /\ [][NextRule]_vars

(***************************************************************************)
(* Properties of the rule instance                                         *)
(***************************************************************************)
\* C21: whatever was called on a rule, its parameter tuple, its hash and its
\* equality are those of a rule freshly constructed from the same arguments
C21_RuleKeepsParamsAndHash ==
    off.op # "none" =>
        /\ _params(off.rule) = _params(construct(off.arguments, None))
        /\ __hash__(off.rule) = __hash__(construct(off.arguments, None))
        /\ __eq__(off.rule, construct(off.arguments, None))

\* a rule that is not a Tick keeps its parameter tuple
C21_HoldsButForTicks ==
    (off.op # "none" /\ off.arguments.kind # "Tick") =>
        /\ _params(off.rule) = _params(construct(off.arguments, None))
        /\ __eq__(off.rule, construct(off.arguments, None))

\* a Tick that was added to a date no longer equals a fresh one
C21_TickAddedDiffers ==
    (off.op = "add" /\ off.arguments.kind = "Tick") =>
        ~__eq__(off.rule, construct(off.arguments, None))

\* a Tick was added to a date and rolled afterwards
C21_TickAddedAndRolled ==
    /\ off.op = "rollback" /\ off.arguments.kind = "Tick"
    /\ off.rule._delta.some

(***************************************************************************)
(* Specification of XDateRange.__iter__ run a statement at a time, with    *)
(* the loop of BDay.apply inside it                                        *)
(***************************************************************************)
\* datetime.min, the earliest date a datetime can hold: below it the
\* addition raises OverflowError
datetime_min == 0 - timedelta(7)

\* the dates of the first week, with every time of day
IterDatetimes == {dt \in Datetimes : dt < timedelta(7)}

\* the generator __init__ leaves for fromDate and toDate
generator(fromDate, toDate, offset) ==
    XDateRange_init(Some(fromDate), Some(toDate), None, offset)

InitIter ==
    /\ \E fromDate \in IterDatetimes, toDate \in IterDatetimes,
          offset \in RangeOffsets :
        rx = [op |-> "iter", pc |-> "start", offset |-> offset,
              cur |-> generator(fromDate, toDate, offset).fromDate,
              toDate |-> generator(fromDate, toDate, offset).toDate,
              n |-> 0, result |-> 0]
    /\ off = Idle /\ req = Idle /\ cache = <<>> /\ calls = <<>>
    /\ PanelIdle

\* lines 66-68: cur = self.fromDate, normalized for the rules that ask for it
IterStart ==
    /\ rx.op = "iter" /\ rx.pc = "start"
    /\ rx' = [rx EXCEPT !.pc = "test",
                        !.cur = IF _normalizeFirst(rx.offset)
                                THEN normalize_date(rx.cur) ELSE rx.cur]
    /\ UNCHANGED <<panelVars, off, req, cache, calls>>

\* line 69: while cur <= self.toDate; line 70: yield cur; the generator ends
\* when the test fails
IterTest ==
    /\ rx.op = "iter" /\ rx.pc = "test"
    /\ rx' = IF rx.cur <= rx.toDate
             THEN [rx EXCEPT !.pc = "add", !.result = rx.cur,
                             !.n = IF rx.offset.n = 0 /\ weekday(rx.cur) > 4
                                   THEN 1 ELSE rx.offset.n]
             ELSE [rx EXCEPT !.pc = "done"]
    /\ UNCHANGED <<panelVars, off, req, cache, calls>>

\* BDay.apply lines 228-231: one turn of while n != 0
BDayStep ==
    /\ rx.op = "iter" /\ rx.pc = "add"
    /\ rx.offset.kind = "BDay" /\ rx.n # 0
    /\ rx' = IF rx.result + timedelta(signOf(rx.n)) < datetime_min
             THEN [rx EXCEPT !.pc = "OverflowError"]
             ELSE [rx EXCEPT
                     !.result = rx.result + timedelta(signOf(rx.n)),
                     !.n = IF weekday(rx.result + timedelta(signOf(rx.n))) < 5
                           THEN rx.n - signOf(rx.n) ELSE rx.n]
    /\ UNCHANGED <<panelVars, off, req, cache, calls>>

\* BDay.apply lines 233-239: the loop is left and the result returned to
\* line 71
BDayReturn ==
    /\ rx.op = "iter" /\ rx.pc = "add"
    /\ rx.offset.kind = "BDay" /\ rx.n = 0
    /\ rx' = [rx EXCEPT !.pc = "test", !.cur = normalize_date(rx.result)]
    /\ UNCHANGED <<panelVars, off, req, cache, calls>>

\* line 71 for the other rules: cur = cur + offset
IterAdd ==
    /\ rx.op = "iter" /\ rx.pc = "add"
    /\ rx.offset.kind # "BDay"
    /\ rx' = IF apply(rx.offset, rx.cur) < datetime_min
             THEN [rx EXCEPT !.pc = "OverflowError"]
             ELSE [rx EXCEPT !.pc = "test", !.cur = apply(rx.offset, rx.cur)]
    /\ UNCHANGED <<panelVars, off, req, cache, calls>>

NextIter == IterStart \/ IterTest \/ BDayStep \/ BDayReturn \/ IterAdd

SpecIter == InitIter /\ [][NextIter]_vars

\* the interpreter goes on running the generator while it has a statement
\* to run
SpecIterFair == SpecIter /\ WF_vars(NextIter)

(***************************************************************************)
(* Properties of the generator                                             *)
(***************************************************************************)
\* the generator has ended, by leaving the loop or by an error
Ended == rx.pc \in {"done", "OverflowError"}

\* C22: generating a range between two dates ends for every rule and every
\* multiplier
C22_GenerationTerminates == <>Ended

\* with a positive multiplier the generator leaves its loop
C22_PositiveMultiplierTerminates ==
    (rx.op = "iter" /\ rx.offset.n >= 1) ~> (rx.pc = "done")

\* with a negative multiplier the generator ends, with an error when it
\* yielded a label
C22_NegativeMultiplierEnds ==
    (rx.op = "iter" /\ rx.offset.n < 0) ~> Ended

\* the loop of BDay.apply is always left
C22_BDayApplyTerminates ==
    (rx.op = "iter" /\ rx.pc = "add") ~> (rx.pc # "add")

\* with multiplier 0 a generator that enters its loop never ends
C22_ZeroMultiplierNeverEnds ==
    [][(rx.offset.n = 0 /\ rx.pc = "add") => rx'.pc \in {"add", "test"}]_vars
    /\ [][(rx.offset.n = 0 /\ rx.pc = "test" /\ rx.cur <= rx.toDate) =>
             (rx'.pc = "add" /\ rx'.cur <= rx'.toDate)]_vars
    /\ [][(rx.offset.n = 0 /\ rx.pc = "add" /\ rx.cur <= rx.toDate) =>
             rx'.cur <= rx'.toDate]_vars

\* a generator with multiplier 0 is in its loop after having yielded
C22_ZeroMultiplierLoops ==
    /\ rx.op = "iter" /\ rx.offset.n = 0 /\ rx.pc = "test"
    /\ rx.cur <= rx.toDate /\ rx.result = rx.cur

(***************************************************************************)
(* LongPanel.apply on the value buffer and the bounds of the panel's index *)
(***************************************************************************)
\* result.repeat(repeater, axis=0): the row of every group once for each of
\* its rows, the bounds being those of an index
repeated(result, bounds, N) ==
    [q \in 1..N |->
        result[CHOOSE i \in 1..Len(bounds) :
                  /\ bounds[i] <= q - 1
                  /\ \A j \in 1..Len(bounds) : bounds[j] <= q - 1 => j <= i]]

\* lines 1506-1515 of _apply_axis: the panel built from the aggregate, or
\* the error group_agg raised
framed(result, values, bounds, broadcast) ==
    IF result.status # "ok" THEN Raised(result.status)
    ELSE IF broadcast
    THEN [status |-> "ok", class |-> "LongPanel",
          val |-> repeated(result.val, bounds, Len(values.rows))]
    ELSE [status |-> "ok", class |-> "DataMatrix", val |-> result.val]

\* LongPanel._apply_axis along the axis the rows are grouped by
_apply_axis(values, bounds, f, broadcast) ==
    framed(group_agg(values, bounds, f), values, bounds, broadcast)

\* the except clause of LongPanel.apply: f on all the values, as a LongPanel
rescued(attempt, values, f) ==
    IF attempt.status = "ok" THEN attempt
    ELSE [status |-> "ok", class |-> "LongPanel",
          val |-> applyF(f, values.ndim, values.K, values.rows).val]

\* LongPanel.apply
LongPanel_apply(values, bounds, f, broadcast) ==
    rescued(_apply_axis(values, bounds, f, broadcast), values, f)

(***************************************************************************)
(* Specification of LongPanel.apply calls                                  *)
(***************************************************************************)
\* the N x K buffers of panels
PanelValues == {values \in AggValues : values.ndim = 2}

\* the bounds of an index over the rows: one entry per major label, from 0,
\* never decreasing
IndexBounds(values) ==
    {bounds \in AggBounds(values) :
        /\ bounds[1] = 0
        /\ \A i \in 1..(Len(bounds) - 1) : bounds[i] <= bounds[i + 1]}

InitApply ==
    /\ \E values \in PanelValues : \E bounds \in IndexBounds(values) :
        \E f \in ReduceFns, broadcast \in BOOLEAN :
            agg = [op |-> "call", values |-> values, bounds |-> bounds,
                   f |-> f, broadcast |-> broadcast]
    /\ ix = None /\ ret = Idle
    /\ lp = None /\ wp = None /\ base = None /\ trace = <<>> /\ out = Idle
    /\ DateIdle

\* panel.apply(f, broadcast=broadcast); sum is apply with np.sum(x, axis=0)
PanelApply ==
    /\ agg.op = "call"
    /\ agg' = [agg EXCEPT !.op = "apply"] @@
              [res |-> LongPanel_apply(agg.values, agg.bounds, agg.f,
                                       agg.broadcast)]
    /\ UNCHANGED <<dateVars, ix, ret, lp, wp, base, trace, out>>

NextApply == PanelApply

SpecApply == InitApply /\ [][NextApply]_vars

(***************************************************************************)
(* Properties of LongPanel.apply                                           *)
(***************************************************************************)
\* what group_agg gives for the call in agg
Aggregated == group_agg(agg.values, agg.bounds, agg.f)

\* C23: an error raised while the groups are aggregated reaches the caller
\* of LongPanel.apply, which returns the aggregate of the groups or fails
C23_AggregationErrorsReachCaller ==
    agg.op = "apply" =>
        IF Aggregated.status = "ok"
        THEN /\ agg.res.status = "ok"
             /\ agg.res.val = IF agg.broadcast
                              THEN repeated(Aggregated.val, agg.bounds,
                                            Len(agg.values.rows))
                              ELSE Aggregated.val
        ELSE agg.res.status = Aggregated.status

\* when group_agg returns, apply returns the aggregate of the groups
C23_ReturnsAggregateWhenNoError ==
    (agg.op = "apply" /\ Aggregated.status = "ok") =>
        /\ agg.res.status = "ok"
        /\ agg.res.class = IF agg.broadcast THEN "LongPanel" ELSE "DataMatrix"
        /\ ~agg.broadcast => agg.res.val = Aggregated.val

\* when group_agg raises, apply returns a LongPanel of f on all the values
C23_ErrorsAreReplaced ==
    (agg.op = "apply" /\ Aggregated.status # "ok") =>
        /\ agg.res.status = "ok" /\ agg.res.class = "LongPanel"
        /\ agg.res.val = agg.values.rows

\* group_agg raised 'Passed function does not aggregate!' on a panel with
\* rows and apply returned
C23_NotAggregatingSwallowed ==
    /\ agg.op = "apply" /\ ~agg.broadcast
    /\ Len(agg.values.rows) >= 2
    /\ Aggregated.status = "Passed function does not aggregate!"
    /\ agg.res.status = "ok"

(***************************************************************************)
(* Series.truncate                                                         *)
(***************************************************************************)
\* self.index[loc]: a negative position counts from the end, a position
\* outside the index raises IndexError
indexAt(index, loc) ==
    IF loc >= Len(index) \/ loc < 0 - Len(index) THEN Raised("IndexError")
    ELSE Returned(index[(IF loc < 0 THEN loc + Len(index) ELSE loc) + 1])

\* lines 823-827: the label the slice starts at
firstKept(index, before) ==
    IF ~before.some THEN indexAt(index, 0)
    ELSE IF contains(index, before.val) THEN Returned(before.val)
    ELSE indexAt(index, searchsorted(index, before.val, "left"))

\* line 833: loc = loc if loc < len(self.index) else -1
lastLoc(index, loc) == IF loc < Len(index) THEN loc ELSE -1

\* lines 829-834: the label the slice ends at
lastKept(index, after) ==
    IF ~after.some THEN indexAt(index, -1)
    ELSE IF contains(index, after.val) THEN Returned(after.val)
    ELSE indexAt(index,
                 lastLoc(index, searchsorted(index, after.val, "right") - 1))

\* lines 836-839: self[beg_slice:end_slice] for the two labels
cut(index, values, first, last) ==
    IF first.status # "ok" THEN first
    ELSE IF last.status # "ok" THEN last
    ELSE Returned(
            [index |-> slice(index, positionOf(index, first.val),
                             positionOf(index, last.val) + 1),
             values |-> slice(values, positionOf(index, first.val),
                              positionOf(index, last.val) + 1)])

\* Series.truncate
Series_truncate(index, values, before, after) ==
    cut(index, values, firstKept(index, before), lastKept(index, after))

(***************************************************************************)
(* Specification of Series.truncate calls                                  *)
(***************************************************************************)
\* the series truncated: a sorted index that is not empty
TruncatedIndexes == OldIndexes \ {<<>>}

\* before and after: None, a label, or a value next to one, among them
\* values below the smallest and above the largest label
TruncateBounds ==
    {None} \cup {Some(l + d) : l \in ReindexLabels, d \in {-1, 0, 1}}

InitTruncate ==
    /\ \E index \in TruncatedIndexes, before \in TruncateBounds,
          after \in TruncateBounds :
        rx = [op |-> "call", index |-> index, values |-> ValuesOf(index),
              before |-> before, after |-> after]
    /\ off = Idle /\ req = Idle /\ cache = <<>> /\ calls = <<>>
    /\ PanelIdle

SeriesTruncate ==
    /\ rx.op = "call"
    /\ rx' = [rx EXCEPT !.op = "truncate"] @@
             [res |-> Series_truncate(rx.index, rx.values, rx.before, rx.after)]
    /\ UNCHANGED <<panelVars, off, req, cache, calls>>

NextTruncate == SeriesTruncate

SpecTruncate == InitTruncate /\ [][NextTruncate]_vars

(***************************************************************************)
(* Properties of Series.truncate                                           *)
(***************************************************************************)
\* the positions of the labels between before and after
Within(index, before, after) ==
    {p \in 1..Len(index) :
        /\ before.some => before.val <= index[p]
        /\ after.some => index[p] <= after.val}

\* the entries at a set of positions, in their order
EntriesAt(seq, positions) ==
    [k \in 1..Cardinality(positions) |->
        seq[CHOOSE p \in positions :
               Cardinality({q \in positions : q < p}) = k - 1]]

\* truncate returned the entries with before <= label <= after
TruncatedRight ==
    /\ rx.res.status = "ok"
    /\ rx.res.val.index =
          EntriesAt(rx.index, Within(rx.index, rx.before, rx.after))
    /\ rx.res.val.values =
          EntriesAt(rx.values, Within(rx.index, rx.before, rx.after))

\* C24: truncate(before, after) of a series with a sorted index that is not
\* empty returns the entries whose labels lie between before and after, in
\* their order, whatever before and after are
C24_TruncateKeepsLabelsWithin == rx.op = "truncate" => TruncatedRight

\* truncate is right when before is not above the largest label and after
\* is not below the smallest
C24_HoldsInsideTheIndex ==
    (/\ rx.op = "truncate"
     /\ rx.before.some => rx.before.val <= rx.index[Len(rx.index)]
     /\ rx.after.some => rx.after.val >= rx.index[1])
    => TruncatedRight

\* a before above the largest label raises IndexError
C24_BeforeAboveRaises ==
    (/\ rx.op = "truncate"
     /\ rx.before.some /\ rx.before.val > rx.index[Len(rx.index)])
    => rx.res = Raised("IndexError")

\* an after below the smallest label is taken for the last label
C24_AfterBelowKeepsAll ==
    /\ rx.op = "truncate" /\ ~rx.before.some
    /\ rx.after.some /\ rx.after.val < rx.index[1]
    /\ Len(rx.index) >= 2
    /\ rx.res.status = "ok" /\ rx.res.val.index = rx.index

\* before and after lie between two labels and nothing is returned
C24_BetweenLabelsEmpty ==
    /\ rx.op = "truncate" /\ rx.before.some /\ rx.after = rx.before
    /\ ~contains(rx.index, rx.before.val)
    /\ rx.index[1] < rx.before.val /\ rx.before.val < rx.index[Len(rx.index)]
    /\ rx.res = Returned([index |-> <<>>, values |-> <<>>])

(***************************************************************************)
(* The keys of consistent in machine integers.  A key is held as           *)
(* <<high, low>>, low being its lowest 16 bits, so that products beyond    *)
(* 32 bits can be written down; an int32 keeps the lowest 16 bits of high. *)
(***************************************************************************)
Half == 2 ^ 16

\* major * offset + minor, exactly, for operands below 2^17
mulAdd(major, offset, minor) ==
    LET a1 == major \div 256
        a0 == major % 256
        b1 == offset \div 256
        b0 == offset % 256
        mid == a1 * b0 + a0 * b1
        low == a0 * b0 + (mid % 256) * 256 + minor
    IN <<a1 * b1 + (mid \div 256) + (low \div Half), low % Half>>

\* a value stored in an integer of the given number of bits
stored_as(bits, key) == IF bits = 32 THEN <<key[1] % Half, key[2]>> ELSE key

\* an encoding that is never widened
bitsOfLabels(offset, dtype) == dtype

\* line 1608: int64 when (offset + 1) ** 2 > 2**32, else the dtype of the
\* label arrays
bitsOfKeys(offset, dtype) == IF offset + 1 > WidenThreshold THEN 64 ELSE dtype

\* lines 1605-1612: the keys of rows given by their positions, for axes of
\* the given lengths and label arrays of the given dtype
keysIn(N_maj, N_min, major_labels, minor_labels, dtype) ==
    [i \in 1..Len(major_labels) |->
        stored_as(bitsOfKeys(Max(N_maj, N_min), dtype),
                  mulAdd(major_labels[i], Max(N_maj, N_min), minor_labels[i]))]

\* lines 1614-1619: no key occurs twice
uniqueKeys(keys) ==
    IF Cardinality({keys[i] : i \in 1..Len(keys)}) < Len(keys) THEN FALSE
    ELSE TRUE

(***************************************************************************)
(* Specification of consistent on long axes                                *)
(***************************************************************************)
\* axis lengths around the widths at stake: 46341 squared passes 2^31,
\* 65535 is the longest axis that is not widened, 70000 the axis of the test
AxisLengths == {2, 46341, 65535, 65536, 70000}

\* positions on an axis of N labels: its ends, its middle, and the two
\* positions whose rows meet modulo 2^32 on an axis of 70000 labels
PositionsOn(N) ==
    {p \in {0, 1, 22704, 61357, N \div 2, N - 2, N - 1} : 0 <= p /\ p < N}

\* the dtype of the label arrays: int32 or int64 as the platform has it
LabelBits == {32, 64}

InitKeys ==
    /\ \E N_maj \in AxisLengths, N_min \in AxisLengths, dtype \in LabelBits :
        \E major_labels \in [1..2 -> PositionsOn(N_maj)],
           minor_labels \in [1..2 -> PositionsOn(N_min)] :
            ret = [op |-> "call", N_maj |-> N_maj, N_min |-> N_min,
                   major_labels |-> major_labels,
                   minor_labels |-> minor_labels, dtype |-> dtype]
    /\ ix = None /\ agg = Idle
    /\ lp = None /\ wp = None /\ base = None /\ trace = <<>> /\ out = Idle
    /\ DateIdle

\* index.consistent
ConsistentKeys ==
    /\ ret.op = "call"
    /\ ret' = [ret EXCEPT !.op = "consistent"] @@
              [bits |-> bitsOfKeys(Max(ret.N_maj, ret.N_min), ret.dtype),
               keys |-> keysIn(ret.N_maj, ret.N_min, ret.major_labels,
                               ret.minor_labels, ret.dtype),
               res |-> uniqueKeys(keysIn(ret.N_maj, ret.N_min,
                                         ret.major_labels, ret.minor_labels,
                                         ret.dtype))]
    /\ UNCHANGED <<dateVars, ix, lp, wp, base, trace, out, agg>>

NextKeys == ConsistentKeys

SpecKeys == InitKeys /\ [][NextKeys]_vars

(***************************************************************************)
(* Properties of the keys                                                  *)
(***************************************************************************)
\* (K + 1)^2 > 2^32 for the longer axis K, in exact arithmetic
SquareBeyond32 ==
    LET square == mulAdd(Max(ret.N_maj, ret.N_min) + 1,
                         Max(ret.N_maj, ret.N_min) + 1, 0)
    IN square[1] > Half \/ (square[1] = Half /\ square[2] > 0)

\* what consistent gives with integers that have no bound
UnboundedResult ==
    uniqueKeys([i \in 1..Len(ret.major_labels) |->
                   mulAdd(ret.major_labels[i], Max(ret.N_maj, ret.N_min),
                          ret.minor_labels[i])])

\* C25: when (K + 1)^2 <= 2^32 the keys are computed in the integers of the
\* label arrays and consistent gives what it gives with unbounded integers,
\* in 32 bits too, rows with different positions having different keys;
\* when (K + 1)^2 > 2^32 the keys are computed in 64 bits
C25_KeysDistinctWithinWord ==
    ret.op = "consistent" =>
        /\ ret.res = UnboundedResult
        /\ ret.res = (<<ret.major_labels[1], ret.minor_labels[1]>>
                        # <<ret.major_labels[2], ret.minor_labels[2]>>)
        /\ (ret.bits = 64) = (SquareBeyond32 \/ ret.dtype = 64)
        /\ ~SquareBeyond32 => ret.bits = ret.dtype

\* int32 keys past 2^31 of two rows on the longest axis that is not widened
C25_Witness ==
    /\ ret.op = "consistent" /\ ret.dtype = 32 /\ ret.bits = 32
    /\ Max(ret.N_maj, ret.N_min) = WidenThreshold - 1
    /\ ret.keys[1][1] >= Half \div 2 /\ ret.keys[2][1] >= Half \div 2
    /\ ret.keys[1] # ret.keys[2]
    /\ ret.res

\* two rows that would meet in 32 bits are told apart in 64
C25_WidenedRowsApart ==
    /\ ret.op = "consistent" /\ ret.dtype = 32 /\ ret.bits = 64
    /\ stored_as(32, ret.keys[1]) = stored_as(32, ret.keys[2])
    /\ ret.res

(***************************************************************************)
(* LongPanel.swapaxes and LongPanel.truncate                               *)
(***************************************************************************)
\* a.argsort(kind='mergesort'): the stable order, as 1-based row numbers
argsort(a) ==
    [r \in 1..Len(a) |->
        CHOOSE i \in 1..Len(a) :
            Cardinality({j \in 1..Len(a) :
                            a[j] < a[i] \/ (a[j] = a[i] /\ j < i)}) = r - 1]

\* lines 1335-1339: the new index is handed the mask of the old one
swappedIndex(index, indexer) ==
    LongPanelIndex(index.minor_axis, index.major_axis,
                   take(index.minor_labels, indexer),
                   take(index.major_labels, indexer),
                   maskOf(index).mask)

swappedBy(self, indexer) ==
    LongPanel(take(self.values, indexer), self.items,
              swappedIndex(self.index, indexer))

\* LongPanel.swapaxes
swapaxes(self) == swappedBy(self, argsort(self.index.minor_labels))

truncatedBy(self, before, after, bounds) ==
    IF bounds.res.status # "ok"
    THEN [self |-> [self EXCEPT !.index = bounds.index], res |-> bounds.res]
    ELSE [self |-> [self EXCEPT !.index = bounds.index],
          res |-> Returned(LongPanel(
                    PySlice(self.values, bounds.res.val[1], bounds.res.val[2]),
                    self.items,
                    truncate(bounds.index, before, after).res.val))]

\* LongPanel.truncate: [self |-> the panel afterwards, res |-> outcome]
LongPanel_truncate(self, before, after) ==
    truncatedBy(self, before, after,
                get_major_bounds(self.index, before, after))

(***************************************************************************)
(* Specification of the panels reached by toLong, sort, swapaxes, truncate *)
(***************************************************************************)
Swapaxes ==
    /\ lp.some
    /\ Len(trace) < MaxOps
    /\ lp' = Some(swapaxes(lp.val))
    /\ trace' = Append(trace, "swapaxes")
    /\ out' = [op |-> "swapaxes", res |-> Returned(lp.val.index)]
    /\ UNCHANGED <<dateVars, wp, base, ix, ret, agg>>

TruncatePanel ==
    /\ lp.some
    /\ Len(trace) < MaxOps
    /\ \E before \in Bounds(lp.val.index), after \in Bounds(lp.val.index) :
        \E r \in {LongPanel_truncate(lp.val, before, after)} :
            /\ lp' = IF r.res.status = "ok" THEN Some(r.res.val)
                     ELSE Some(r.self)
            /\ trace' = Append(trace, IF r.res.status = "ok" THEN "truncate"
                                      ELSE "truncate raised")
            /\ out' = [op |-> "truncate", res |-> Raised(r.res.status)]
    /\ UNCHANGED <<dateVars, wp, base, ix, ret, agg>>

NextMask == ToLong \/ Sort \/ Swapaxes \/ TruncatePanel

SpecMask == InitReshape /\ [][NextMask]_vars

(***************************************************************************)
(* Properties of the mask a panel's index carries                          *)
(***************************************************************************)
\* the mask held by the index is the one its axes and positions give
MaskIsOwn(index) == index.mask.some => index.mask.val = _makeMask(index)

\* C26: the mask an index carries, handed in or memoized, is the mask
\* recomputed from its own axes and positions, after any calls of toLong,
\* sort, swapaxes and truncate
C26_MaskMatchesOwnPositions == lp.some => MaskIsOwn(lp.val.index)

\* but for swapaxes the mask is always the index's own
C26_OwnMaskButForSwapaxes ==
    (lp.some /\ \A i \in 1..Len(trace) : trace[i] # "swapaxes")
        => MaskIsOwn(lp.val.index)

\* the mask of a swapped panel is the mask of the panel before the swap
C26_SwappedCarriesOldMask ==
    (out.op = "swapaxes" /\ trace[Len(trace)] = "swapaxes")
        => lp.val.index.mask = maskOf(out.res.val).mask

\* a swapped panel of a filtered toLong whose mask is not its own
C26_SwappedMaskStale ==
    /\ lp.some /\ Len(trace) = 2
    /\ trace[1] = "toLong" /\ trace[2] = "swapaxes"
    /\ ~MaskIsOwn(lp.val.index)

(***************************************************************************)
(* LongPanel.__setitem__.  The panel is [items, index, shape, values]:     *)
(* index is the number of rows of its index, values its rows and shape     *)
(* the shape of the values array, kept beside the rows because an array    *)
(* without rows still has a number of columns.  An array handed in is      *)
(* [shape, fill], every entry being fill; shape has one or two entries.    *)
(***************************************************************************)
\* Index(labels): labels of an index are unique
Index(labels) ==
    IF \E i, j \in 1..Len(labels) : i # j /\ labels[i] = labels[j]
    THEN Raised("DuplicateLabelError")
    ELSE Returned(labels)

\* lines 1126-1142: the matrix to append
matOf(self, value) ==
    IF value.kind = "scalar"
    THEN Returned([shape |-> <<self.shape[1], 1>>, fill |-> value.val])
    ELSE IF value.kind = "ndarray" THEN Returned(value.array)
    ELSE IF value.kind = "LongPanel"
    THEN IF value.items > 1
         THEN Raised("input LongPanel must only have one column")
         ELSE IF ~value.sameIndex
         THEN Raised("Only can set identically-indexed LongPanel items for now")
         ELSE Returned([shape |-> <<self.index, value.items>>,
                        fill |-> value.val])
    ELSE Raised("UnboundLocalError")

\* np.column_stack((values, mat)): a 1-dimensional mat is one column
column_stack(self, mat) ==
    LET rows == mat.shape[1]
        width == IF Len(mat.shape) = 1 THEN 1 ELSE mat.shape[2]
    IN IF rows # self.shape[1] THEN Raised("ValueError")
       ELSE Returned([shape |-> <<rows, self.shape[2] + width>>,
                      values |-> [r \in 1..rows |->
                                    self.values[r]
                                        \o [c \in 1..width |-> mat.fill]]])

\* LongPanel._set_values on the panel whose items are already set
_set_values(self, stacked) ==
    IF stacked.status # "ok" THEN [self |-> self, res |-> stacked]
    ELSE IF stacked.val.shape # <<self.index, Len(self.items)>>
    THEN [self |-> self, res |-> Raised("Values shape mismatch")]
    ELSE [self |-> [self EXCEPT !.shape = stacked.val.shape,
                                !.values = stacked.val.values],
          res |-> Returned(stacked.val.shape)]

\* lines 1144-1145, given the matrix and the new items
appended(self, mat, items) ==
    IF mat.status # "ok" /\ mat.status # "UnboundLocalError"
    THEN [self |-> self, res |-> mat]
    ELSE IF items.status # "ok" THEN [self |-> self, res |-> items]
    ELSE IF mat.status = "UnboundLocalError"
    THEN [self |-> [self EXCEPT !.items = items.val], res |-> mat]
    ELSE _set_values([self EXCEPT !.items = items.val],
                     column_stack(self, mat.val))

\* LongPanel.__setitem__: [self |-> the panel afterwards, res |-> outcome]
LongPanel_setitem(self, key, value) ==
    appended(self, matOf(self, value), Index(Append(self.items, key)))

(***************************************************************************)
(* Specification of one LongPanel and the items set on it                  *)
(***************************************************************************)
ItemKeys == {"ItemA", "ItemB", "ItemC"}

\* the shapes of the arrays handed in: one and two dimensions, of the
\* panel's length and off it by one, of no, one and two columns
ArrayShapes(n) ==
    {<<m>> : m \in {n, n + 1}} \cup {<<m, w>> : m \in {n, n + 1}, w \in 0..2}

SetValues(n) ==
    {[kind |-> "scalar", val |-> 1]}
    \cup {[kind |-> "ndarray", array |-> [shape |-> sh, fill |-> 2]] :
            sh \in ArrayShapes(n)}
    \cup {[kind |-> "LongPanel", items |-> i, sameIndex |-> b, val |-> 3] :
            i \in 0..2, b \in BOOLEAN}
    \cup {[kind |-> "list"]}

InitSet ==
    /\ \E n \in 0..MaxRows, items \in ItemLists :
        lp = Some([items |-> items, index |-> n,
                   shape |-> <<n, Len(items)>>,
                   values |-> ValuesWith(n, Len(items), {})])
    /\ wp = None /\ base = None /\ trace = <<>> /\ out = Idle
    /\ ix = None /\ ret = Idle /\ agg = Idle
    /\ DateIdle

SetItem ==
    /\ Len(trace) < MaxOps
    /\ \E key \in ItemKeys, value \in SetValues(lp.val.index) :
        \E r \in {LongPanel_setitem(lp.val, key, value)} :
            /\ lp' = Some(r.self)
            /\ out' = [op |-> "__setitem__", self |-> lp.val, key |-> key,
                       value |-> value, res |-> Raised(r.res.status)]
            /\ trace' = Append(trace, IF r.res.status = "ok" THEN "set"
                                      ELSE "set raised")
    /\ UNCHANGED <<dateVars, wp, base, ix, ret, agg>>

NextSet == SetItem

SpecSet == InitSet /\ [][NextSet]_vars

(***************************************************************************)
(* Properties of __setitem__                                               *)
(***************************************************************************)
ShapeFits(panel) ==
    /\ panel.shape = <<panel.index, Len(panel.items)>>
    /\ Len(panel.values) = panel.index
    /\ \A r \in 1..Len(panel.values) :
        Len(panel.values[r]) = Len(panel.items)

SetRaised == out.op = "__setitem__" /\ out.res.status # "ok"

\* C27: after any calls of __setitem__ the values have len(index) rows and
\* len(items) columns, and a call that raises leaves items and values as
\* they were
C27_SetItemKeepsShape ==
    /\ ShapeFits(lp.val)
    /\ SetRaised => lp.val = out.self

\* the values are never changed by a call that raises
C27_RaisedKeepsValues ==
    SetRaised => /\ lp.val.values = out.self.values
                 /\ lp.val.shape = out.self.shape

\* a call that raises on the LongPanel handed in or on a key already
\* present leaves the panel as it was
C27_RejectedValueKeepsPanel ==
    (SetRaised /\ out.res.status \in
        {"input LongPanel must only have one column",
         "Only can set identically-indexed LongPanel items for now",
         "DuplicateLabelError"}) => lp.val = out.self

\* a call that raises while stacking or storing has added the key already
C27_LateRaiseAddsKey ==
    (SetRaised /\ out.res.status \in
        {"ValueError", "Values shape mismatch", "UnboundLocalError"})
        => lp.val.items = Append(out.self.items, out.key)

\* the shape fits as long as no call has raised
C27_ShapeFitsWithoutRaise ==
    (\A i \in 1..Len(trace) : trace[i] = "set") => ShapeFits(lp.val)

\* an array one row too long: the call raises and the items have grown
C27_WrongLengthGrowsItems ==
    /\ SetRaised /\ out.value.kind = "ndarray"
    /\ out.value.array.shape = <<out.self.index + 1>>
    /\ out.self.index > 0
    /\ Len(lp.val.items) = Len(lp.val.values[1]) + 1

\* once the shape is off, a later call succeeds on the panel
C27_SetAfterMismatch ==
    /\ Len(trace) = 2 /\ trace[1] = "set raised" /\ trace[2] = "set"

(***************************************************************************)
(* DateRange.shift.  A range is [labels, offset].                          *)
(***************************************************************************)
\* datetools.bday, the offset of a DateRange built without one
bday == BDay(1)

\* lines 261-263 and 268-270: the labels kept and the labels built, put
\* together under the offset of the range
joined(self, first, second) ==
    IF first.status # "ok" THEN first
    ELSE IF second.status # "ok" THEN second
    ELSE Returned([labels |-> first.val \o second.val, offset |-> self.offset])

\* lines 258-263, tail being what DateRange(fromDate=start, periods=n) gave
shiftedForward(self, n, tail) ==
    [res |-> joined(self, Returned(slice(self.labels, n, Len(self.labels))),
                    tail.res),
     cache |-> tail.cache]

\* lines 265-270, head being what DateRange(toDate=end, periods=-n) gave
shiftedBack(self, n, head) ==
    [res |-> joined(self, head.res, Returned(slice(self.labels, 0, n))),
     cache |-> head.cache]

\* DateRange.shift: what the call returns or raises, and the cache it leaves
shift(_cache, self, n) ==
    IF n = 0 THEN [res |-> Returned(self), cache |-> _cache]
    ELSE IF self.labels = <<>>
    THEN [res |-> Raised("IndexError"), cache |-> _cache]
    ELSE IF n > 0
    THEN shiftedForward(self, n,
            DateRange(_cache,
                      Some(apply(self.offset, self.labels[Len(self.labels)])),
                      None, Some(n), bday))
    ELSE shiftedBack(self, n,
            DateRange(_cache, None,
                      Some(minus(self.labels[1], self.offset)),
                      Some(0 - n), bday))

(***************************************************************************)
(* Specification of one date range and one shift of it                     *)
(***************************************************************************)
\* the rules of the ranges shifted: every kind, once and twice
ShiftOffsets == {o \in RangeOffsets : o.n >= 1}

ShiftCounts == (0 - MaxPeriods)..MaxPeriods

InitShift ==
    /\ \E fromDate \in Datetimes, toDate \in OptDatetimes,
          periods \in OptPeriods, offset \in ShiftOffsets :
        \E made \in {DateRange(<<>>, Some(fromDate), toDate, periods, offset)} :
            /\ made.res.status = "ok"
            /\ toDate.some => (periods = None /\ toDate.val < fromDate)
            /\ rx = [op |-> "range", labels |-> made.res.val,
                     offset |-> offset]
            /\ cache = made.cache
    /\ off = Idle /\ req = Idle /\ calls = <<>>
    /\ PanelIdle

Shift ==
    /\ rx.op = "range"
    /\ \E n \in ShiftCounts :
        \E made \in {shift(cache, [labels |-> rx.labels, offset |-> rx.offset], n)} :
            /\ rx' = [rx EXCEPT !.op = "shift"] @@ [n |-> n, res |-> made.res]
            /\ cache' = made.cache
    /\ UNCHANGED <<panelVars, off, req, calls>>

NextShift == Shift

SpecShift == InitShift /\ [][NextShift]_vars

(***************************************************************************)
(* Properties of shift                                                     *)
(***************************************************************************)
\* a date moved by n applications of the rule, back when n is negative
RECURSIVE advanced(_, _, _)
advanced(offset, date, n) ==
    IF n = 0 THEN date
    ELSE IF n > 0 THEN advanced(offset, apply(offset, date), n - 1)
    ELSE advanced(offset, minus(date, offset), n + 1)

ShiftedRight ==
    /\ rx.res.status = "ok"
    /\ rx.res.val.offset = rx.offset
    /\ Len(rx.res.val.labels) = Len(rx.labels)
    /\ \A i \in 1..Len(rx.labels) :
        rx.res.val.labels[i] = advanced(rx.offset, rx.labels[i], rx.n)

\* C28: shift(n) of a range returns a range of the same length and offset
\* whose every label is the label of the range moved by n applications of
\* the offset, and shift(0) returns the range
C28_ShiftMovesEveryLabel == rx.op = "shift" => ShiftedRight

\* the labels built lie within the cached business days
WithinCache(date) == CACHE_START <= date /\ date <= CACHE_END

\* ranges of business days shifted by no more than their length, inside the
\* cached days, are shifted as claimed
C28_BusinessDaysShortShift ==
    (/\ rx.op = "shift" /\ rx.offset = bday
     /\ rx.n <= Len(rx.labels) /\ 0 - rx.n <= Len(rx.labels)
     /\ rx.labels # <<>>
     /\ WithinCache(advanced(bday, rx.labels[1], rx.n))
     /\ WithinCache(advanced(bday, rx.labels[Len(rx.labels)], rx.n)))
        => ShiftedRight

\* the offset is kept and shift(0) returns the range
C28_OffsetKept ==
    (rx.op = "shift" /\ rx.res.status = "ok")
        => /\ rx.res.val.offset = rx.offset
           /\ rx.n = 0 => rx.res.val.labels = rx.labels

\* a shift by more than the length returns more labels than the range has
C28_LongShiftGrows ==
    (/\ rx.op = "shift" /\ rx.res.status = "ok" /\ rx.n > Len(rx.labels)
     /\ WithinCache(advanced(bday, apply(rx.offset, rx.labels[Len(rx.labels)]),
                             rx.n)))
        => Len(rx.res.val.labels) = rx.n

\* a range of every second day shifted forward ends in business days
C28_TailOfBusinessDays ==
    /\ rx.op = "shift" /\ rx.offset = DateOffset(2) /\ rx.n = 2
    /\ Len(rx.labels) = 3 /\ rx.res.status = "ok"
    /\ Len(rx.res.val.labels) = 3
    /\ rx.res.val.labels[3] - rx.res.val.labels[2] = timedelta(1)

\* a range of business days shifted back by its length, as claimed
C28_BusinessDaysShiftedBack ==
    /\ rx.op = "shift" /\ rx.offset = bday /\ rx.n = 0 - 2
    /\ Len(rx.labels) = 2 /\ ShiftedRight

(***************************************************************************)
(* The cache of ranges looked up with rule instances.  The cache is keyed  *)
(* by what __hash__ and __eq__ read of an instance, and an entry is the    *)
(* cached range: its labels and the instance it was built for.             *)
(***************************************************************************)
\* the loop of XDateRange.__iter__ with an instance that moves forward
RECURSIVE stepped(_, _, _)
stepped(self, cur, toDate) ==
    IF ~(cur <= toDate) THEN <<>>
    ELSE <<cur>> \o stepped(self, plus(self, cur), toDate)

\* list(XDateRange(CACHE_START, CACHE_END, offset=self)): with keywords every
\* date is on the offset, so that neither end is rolled
canonicalOf(self) ==
    IF self.days.some THEN stepped(self, CACHE_START, CACHE_END)
    ELSE canonical(self.offset).val

\* lines 152-161 of getCachedRange for an instance
storedFor(_cache, self) ==
    IF _params(self) \notin DOMAIN _cache
    THEN (_params(self) :> [labels |-> canonicalOf(self), offset |-> self])
            @@ _cache
    ELSE _cache

servedFrom(after, self, start, end, periods) ==
    [res |-> sliced(after[_params(self)].labels, start, end, periods),
     cachedRange |-> after[_params(self)],
     cache |-> after]

\* DateRange.getCachedRange called with dates and an anchored instance
getCachedRangeFor(_cache, self, start, end, periods) ==
    servedFrom(storedFor(_cache, self), self, start, end, periods)

(***************************************************************************)
(* Specification of the cache asked for ranges of several instances        *)
(***************************************************************************)
\* anchored rules that are not Ticks: plain ones and DateOffset(days=1),
\* DateOffset(days=2)
AnchoredRules ==
    {construct(o, None) : o \in {BDay(1), DateOffset(1), Week(1, Some(weekday(0)))}}
    \cup {construct(DateOffset(1), Some(d)) : d \in 1..2}

RuleRequests ==
    [start : {Some(CACHE_START + timedelta(d)) : d \in 1..3},
     end : {None, Some(CACHE_END - timedelta(2))},
     periods : {Some(MaxPeriods - 1)},
     offset : AnchoredRules]

InitRuleCache ==
    /\ cache = <<>>
    /\ calls = <<>>
    /\ req = Idle
    /\ rx = Idle /\ off = Idle
    /\ PanelIdle

\* one more DateRange(fromDate, toDate, periods, offset)
RuleRequest ==
    /\ Len(calls) < MaxRequests
    /\ \E r \in RuleRequests :
        \E made \in {getCachedRangeFor(cache, r.offset, r.start, r.end, r.periods)} :
            /\ req' = [op |-> "DateRange", start |-> r.start, end |-> r.end,
                       periods |-> r.periods, offset |-> r.offset,
                       cachedRange |-> made.cachedRange, res |-> made.res]
            /\ cache' = made.cache
            /\ calls' = Append(calls, r.offset)
    /\ UNCHANGED <<panelVars, rx, off>>

NextRuleCache == RuleRequest

SpecRuleCache == InitRuleCache /\ [][NextRuleCache]_vars

(***************************************************************************)
(* Properties of the cache under rule equality                             *)
(***************************************************************************)
SameApply(a, b) == \A d \in Datetimes : plus(a, d) = plus(b, d)

\* C29: rules that compare and hash equal give the same result on every
\* date, so that the range a request is served was built for a rule that
\* generates the labels of the rule of the request
C29_EqualRulesSameLabels ==
    req.op = "DateRange" =>
        /\ (/\ __eq__(req.cachedRange.offset, req.offset)
            /\ __hash__(req.cachedRange.offset) = __hash__(req.offset))
                => SameApply(req.cachedRange.offset, req.offset)
        /\ req.cachedRange.labels = canonicalOf(req.offset)

\* every request is served the entry of a rule equal to its own
C29_ServedEqualRule ==
    req.op = "DateRange" => __eq__(req.cachedRange.offset, req.offset)

\* rules with the same keywords that compare equal generate the same labels
C29_SameKeywordsSameLabels ==
    (req.op = "DateRange" /\ req.cachedRange.offset.days = req.offset.days)
        => /\ SameApply(req.cachedRange.offset, req.offset)
           /\ req.cachedRange.labels = canonicalOf(req.offset)

\* a request for every day served the range built for every second day
C29_DailyServedEverySecondDay ==
    /\ req.op = "DateRange" /\ req.offset = construct(DateOffset(1), None)
    /\ req.cachedRange.offset = construct(DateOffset(1), Some(2))
    /\ req.res.status = "ok" /\ Len(req.res.val) >= 2
    /\ req.res.val[2] - req.res.val[1] = timedelta(2)

(***************************************************************************)
(* Properties of the failures of truncate and get_major_bounds             *)
(***************************************************************************)
Bounding == ret.op \in {"truncate", "get_major_bounds"}

\* the positions of the row range are in order and within the rows
RowRangeWithin(index, res) ==
    /\ 0 <= res.val[1] /\ res.val[1] <= res.val[2]
    /\ res.val[2] <= Len(index.major_labels)

\* before is beyond every label of the major axis
BeforePastEnd ==
    ret.begin.some /\ \A p \in 1..Len(ix.major_axis) :
                            ret.begin.val > ix.major_axis[p]

\* C30: with sorted majorPos, truncate and get_major_bounds fail only with
\* 'Must have begin <= end!'; for every other before and after they return,
\* get_major_bounds a row range with 0 <= left <= right <= N
C30_FailOnlyWhenBeginAfterEnd ==
    (Bounding /\ Sorted(ix.major_labels)) =>
        /\ ret.res.status \in {"ok", "Must have begin <= end!"}
        /\ (ret.res.status = "Must have begin <= end!")
                = (_get_axis_bounds(ix, ret.begin, ret.end).status # "ok")
        /\ (ret.op = "get_major_bounds" /\ ret.res.status = "ok")
                => RowRangeWithin(ix, ret.res)

\* what is returned is as claimed: the row range is in order and within
\* the rows, and the only message is 'Must have begin <= end!'
C30_ReturnedRangeWithin ==
    (Bounding /\ Sorted(ix.major_labels)) =>
        /\ ret.res.status \in {"ok", "Must have begin <= end!", "IndexError"}
        /\ (ret.op = "get_major_bounds" /\ ret.res.status = "ok")
                => RowRangeWithin(ix, ret.res)

\* the calls raise IndexError exactly when begin resolves to the end of the
\* major axis and end does not resolve before it
C30_IndexErrorAtAxisEnd ==
    (Bounding /\ Sorted(ix.major_labels)) =>
        ((ret.res.status = "IndexError")
            = (/\ _get_axis_bounds(ix, ret.begin, ret.end).status = "ok"
               /\ _get_axis_bounds(ix, ret.begin, ret.end).val[1]
                    = Len(ix.major_axis)))

\* an after below every label returns the empty row range
C30_AfterBelowEmpty ==
    /\ ret.op = "get_major_bounds" /\ Sorted(ix.major_labels)
    /\ Len(ix.major_labels) = MaxRows /\ ~ret.begin.some
    /\ ret.end.some /\ \A p \in 1..Len(ix.major_axis) :
                            ret.end.val < ix.major_axis[p]
    /\ ret.res = Returned(<<0, 0>>)

\* a before beyond every label, with begin <= end: IndexError
C30_BeforePastEndRaises ==
    /\ ret.op = "get_major_bounds" /\ Sorted(ix.major_labels)
    /\ Len(ix.major_labels) = MaxRows /\ Len(ix.major_axis) = 2
    /\ BeforePastEnd /\ ~ret.end.some
    /\ ret.res.status = "IndexError"

====
